---- MODULE Spec2Model ----
(***************************************************************************)
(* ts-caldav: the CalDAV client (CalDAVClient) against a CalDAV server.    *)
(*                                                                         *)
(* Strings are sequences of tokens: "/" is the slash character, "W/" the   *)
(* weak-validator marker, " " a blank, every other token an opaque run of  *)
(* characters holding none of these.  The empty string is <<>>.            *)
(***************************************************************************)
EXTENDS Integers, Sequences, FiniteSets, TLC

\* ------------------------------------------------------------------ bounds
MaxCtag == 3        \* the server accepts at most this many modifications
MaxCalls == 2       \* the callers start at most this many library calls

\* ------------------------------------------------------- string helpers
Undef == <<"undefined">>            \* JavaScript undefined / absent header
Empty == <<>>                       \* the empty string ""
Star == <<"*">>

Truthy(s) == s # Undef /\ s # Empty

endsWith(s, t) == Len(s) >= 1 /\ s[Len(s)] = t

startsWith(s, p) == Len(s) >= Len(p) /\ SubSeq(s, 1, Len(p)) = p

\* s.slice(0, -1)
sliceLast(s) == SubSeq(s, 1, Len(s) - 1)

\* s.replace(/^W\//, "")
stripWeak(s) == IF startsWith(s, <<"W/">>) THEN SubSeq(s, 2, Len(s)) ELSE s

RECURSIVE trimStart(_)
trimStart(s) == IF Len(s) >= 1 /\ s[1] = " " THEN trimStart(Tail(s)) ELSE s

RECURSIVE trimEnd(_)
trimEnd(s) == IF Len(s) >= 1 /\ s[Len(s)] = " " THEN trimEnd(sliceLast(s)) ELSE s

\* s.trim()
trim(s) == trimEnd(trimStart(s))

\* the quoted opaque tag a server derives from a version number
Quoted(v) == ToString(v)
StrongTag(v) == <<Quoted(v)>>
WeakTag(v) == <<"W/", Quoted(v)>>

\* etag?.startsWith('W/"') || etag?.startsWith("W/")
isWeak(etag) ==
  /\ etag # Undef
  /\ \/ (startsWith(etag, <<"W/">>) /\ Len(etag) >= 2 /\ etag[2] \notin {"W/", " ", "/"})
     \/ startsWith(etag, <<"W/">>)

\* ------------------------------------------------------------ inputs
Procs == {1, 2}                                  \* concurrent callers of one client
Syncers == {1}                                   \* the caller that also syncs and deletes
ItemTypes == {"event", "todo"}
Component(itemType) == IF itemType = "event" THEN "VEVENT" ELSE "VTODO"
UidU == <<"u">>                                  \* the uid callers supply explicitly
HrefU == <<"/cal", "/", "u", ".ics">>
Reps == {"strong", "weak", "none"}               \* how an ETag header renders a version

\* the entity-tag text a response carries for version v
Render(v, rep) ==
  CASE rep = "strong" -> StrongTag(v)
    [] rep = "weak" -> WeakTag(v)
    [] OTHER -> Undef

VARIABLES
  items,      \* server: href -> [ver, kind, body] for every stored calendar object
  srvCtag,    \* server: the calendar's change-tag (number of modifications so far)
  call,       \* client: per caller, the call in progress or last finished
  nCalls,     \* number of calls started
  uuidSeq,    \* number of uids uuidv4() has generated
  fnArgs,     \* input of the pure function under check (function specifications)
  fnRes       \* its result

serverVars == <<items, srvCtag>>
clientVars == <<call, nCalls, uuidSeq>>
fnVars == <<fnArgs, fnRes>>
vars == <<items, srvCtag, call, nCalls, uuidSeq, fnArgs, fnRes>>

\* ------------------------------------------------------------ the server
CtagText(n) == <<"ctag", ToString(n)>>

\* RFC 7232 strong comparison of an If-Match value against the stored object;
\* an empty header value is malformed and servers differ on it
IfMatchHolds(url, h) ==
  IF h = Empty THEN BOOLEAN
  ELSE {(url \in DOMAIN items) /\ (h = Star \/ h = StrongTag(items[url].ver))}

Store(url, kind, body) ==
  [h \in DOMAIN items \cup {url} |->
     IF h = url THEN [ver |-> srvCtag + 1, kind |-> kind, body |-> body] ELSE items[h]]

Unchanged(status) ==
  [status |-> status, items |-> items, ctag |-> srvCtag, etag |-> Undef]

\* the answers a server may give to PUT r, each with the state it leaves
PutOutcomes(r) ==
  LET exists == r.url \in DOMAIN items
      ok == IF exists THEN {200, 204} ELSE {201, 204}
      pre == IF r.ifNoneMatch = Star THEN {~exists}
             ELSE IF r.ifMatch = Undef THEN {TRUE}
             ELSE IfMatchHolds(r.url, r.ifMatch)
  IN  {Unchanged(500)}
        \cup (IF FALSE \in pre THEN {Unchanged(412)} ELSE {})
        \cup (IF TRUE \in pre /\ srvCtag < MaxCtag
              THEN {[status |-> st, items |-> Store(r.url, r.kind, r.body),
                     ctag |-> srvCtag + 1, etag |-> Render(srvCtag + 1, rep)] :
                       st \in ok, rep \in Reps}
              ELSE {})

\* the answers a server may give to DELETE r
DeleteOutcomes(r) ==
  LET exists == r.url \in DOMAIN items
      pre == IfMatchHolds(r.url, r.ifMatch)
  IN  {Unchanged(500)}
        \cup (IF ~exists THEN {Unchanged(404)} ELSE {})
        \cup (IF exists /\ FALSE \in pre THEN {Unchanged(412)} ELSE {})
        \cup (IF exists /\ TRUE \in pre /\ srvCtag < MaxCtag
              THEN {[status |-> st,
                     items |-> [h \in DOMAIN items \ {r.url} |-> items[h]],
                     ctag |-> srvCtag + 1, etag |-> Undef] : st \in {204, 200}}
              ELSE {})

\* the answers to PROPFIND getctag on the calendar
CtagOutcomes == {[status |-> 207, ctag |-> CtagText(srvCtag)],
                 [status |-> 500, ctag |-> Undef]}

\* ------------------------------------------------------------ the client
\* props lists the properties a PROPFIND or REPORT asks for
Request(method, url, ifMatch, ifNoneMatch, kind, body) ==
  [method |-> method, url |-> url, ifMatch |-> ifMatch, ifNoneMatch |-> ifNoneMatch,
   kind |-> kind, body |-> body, props |-> <<>>, status |-> 0, resp |-> Undef]

NoPrev == [valid |-> FALSE, itemType |-> "event", calendarUrl |-> Empty, ctag |-> Empty,
           localRefs |-> <<>>, fetched |-> Undef, changed |-> FALSE]

\* a caller's record: the call's arguments (urlArg is calendarUrl as passed), its
\* position pc, the requests it has issued and its result; prev remembers the sync
\* call the same caller completed just before this one
NoCall ==
  [op |-> "none", itemType |-> "event", pc |-> "idle", calendarUrl |-> Empty,
   urlArg |-> Empty, prev |-> NoPrev,
   uid |-> Undef, href |-> Empty, etag |-> Undef, base |-> 0, ctag |-> Empty,
   localRefs |-> <<>>, reqs |-> <<>>, outcome |-> "pending", error |-> "",
   rUid |-> Empty, rHref |-> Empty, rEtag |-> Empty, newCtag |-> Undef,
   remoteRefs |-> <<>>, changed |-> FALSE, newItems |-> <<>>,
   updatedItems |-> <<>>, deletedItems |-> <<>>]

CanStart(p) == call[p].pc \in {"idle", "done"} /\ nCalls < MaxCalls

\* the request log of call c with the answer to its last request filled in
\* (resp is what the answer carries: the ETag header of a PUT, the tag of a getctag)
Answered(c, status, resp) ==
  [c.reqs EXCEPT ![Len(c.reqs)] = [c.reqs[Len(c.reqs)] EXCEPT !.status = status,
                                                               !.resp = resp]]

\* call c ends by throwing
Reject(c, status, error) ==
  [c EXCEPT !.pc = "done", !.outcome = "rejected", !.error = error,
            !.reqs = Answered(c, status, Undef)]

\* calendarUrl with one trailing slash removed
normalizedUrl(calendarUrl) ==
  IF endsWith(calendarUrl, "/") THEN sliceLast(calendarUrl) ELSE calendarUrl

\* `${calendarUrl}/${uid}.ics`
itemHref(calendarUrl, uid) == calendarUrl \o <<"/">> \o uid \o <<".ics">>

\* the href createItem returns (calendarUrl already normalized)
returnedHref(calendarUrl, uid) ==
  (IF endsWith(calendarUrl, "/") THEN calendarUrl ELSE calendarUrl \o <<"/">>)
    \o uid \o <<".ics">>

uuidv4 == <<"uuid", ToString(uuidSeq)>>

GetCtagRequest(calendarUrl) ==
  [Request("PROPFIND", calendarUrl, Undef, Undef, "getctag", 0) EXCEPT
     !.props = <<"getctag">>]

\* mutant of CreateRequest: the PUT carries no If-None-Match
CreateRequest_NoPrecondition(href, itemType, body) ==
  Request("PUT", href, Undef, Undef, Component(itemType), body)

CreateRequest(href, itemType, body) ==
  Request("PUT", href, Undef, Star, Component(itemType), body)

\* validateStatus of createItem's PUT
createAccepts(status) == status = 201 \/ status = 204

\* mutant of headerEtag: a missing header is replaced by a made-up tag
headerEtag_Fabricated(etag) == IF Truthy(etag) THEN etag ELSE Star

\* response.headers["etag"] || ""
headerEtag(etag) == IF Truthy(etag) THEN etag ELSE Empty

\* createEvent / createTodo: up to the PUT being sent
createItem(p, itemType, calendarUrl, uid) ==
  /\ CanStart(p)
  /\ nCalls' = nCalls + 1
  /\ LET c == [NoCall EXCEPT !.op = "createItem", !.itemType = itemType, !.uid = uid,
                             !.urlArg = calendarUrl]
     IN IF ~Truthy(calendarUrl)
        THEN /\ call' = [call EXCEPT ![p] =
                  [c EXCEPT !.pc = "done", !.outcome = "rejected", !.error = "UrlRequired"]]
             /\ UNCHANGED uuidSeq
        ELSE LET theUid == IF Truthy(uid) THEN uid ELSE uuidv4
                 url == normalizedUrl(calendarUrl)
                 href == itemHref(url, theUid)
             IN /\ call' = [call EXCEPT ![p] =
                     [c EXCEPT !.pc = "put", !.calendarUrl = url, !.rUid = theUid,
                               !.href = href,
                               !.reqs = <<CreateRequest(href, itemType, p)>>]]
                /\ uuidSeq' = IF Truthy(uid) THEN uuidSeq ELSE uuidSeq + 1
  /\ UNCHANGED <<serverVars, fnVars>>

\* createItem: the server answers the PUT; on success the change-tag is requested
createItemPut(p) ==
  /\ call[p].op = "createItem" /\ call[p].pc = "put"
  /\ \E o \in PutOutcomes(call[p].reqs[1]) :
       LET c == call[p] IN
       /\ items' = o.items
       /\ srvCtag' = o.ctag
       /\ call' = [call EXCEPT ![p] =
            IF createAccepts(o.status)
            THEN [c EXCEPT !.pc = "ctag", !.rEtag = headerEtag(o.etag),
                           !.reqs = Append(Answered(c, o.status, o.etag),
                                           GetCtagRequest(c.calendarUrl))]
            ELSE Reject(c, o.status, IF o.status = 412 THEN "Conflict" ELSE "Failed")]
  /\ UNCHANGED <<nCalls, uuidSeq, fnVars>>

\* createItem: the change-tag arrives and the call returns
createItemCtag(p) ==
  /\ call[p].op = "createItem" /\ call[p].pc = "ctag"
  /\ \E o \in CtagOutcomes :
       LET c == call[p] IN
       call' = [call EXCEPT ![p] =
            IF o.status = 207
            THEN [c EXCEPT !.pc = "done", !.outcome = "resolved", !.newCtag = o.ctag,
                           !.rHref = returnedHref(c.calendarUrl, c.rUid),
                           !.reqs = Answered(c, o.status, o.ctag)]
            ELSE Reject(c, o.status, "Failed")]
  /\ UNCHANGED <<serverVars, nCalls, uuidSeq, fnVars>>

\* item.etag?.replace(/^W\//, "").trim()
ifMatch(etag) == IF etag = Undef THEN Undef ELSE trim(stripWeak(etag))

\* this.isWeak(ifMatch) ? undefined : ifMatch
ifMatchValue(etag) == IF isWeak(ifMatch(etag)) THEN Undef ELSE ifMatch(etag)

\* mutant of ifMatchHeader: the header never reaches the request
ifMatchHeader_Dropped(etag) == Undef

\* ...(ifMatchValue ? { "If-Match": ifMatchValue } : {})
ifMatchHeader(etag) == IF Truthy(ifMatchValue(etag)) THEN ifMatchValue(etag) ELSE Undef

UpdateRequest(href, etag, itemType, body) ==
  Request("PUT", href, ifMatchHeader(etag), Undef, Component(itemType), body)

\* validateStatus of updateItem's PUT
updateAccepts(status) == status >= 200 /\ status < 300

\* mutant of updateValid: only the uid is required
updateValid_UidOnly(uid, href) == Truthy(uid)

\* !item.uid || !item.href, negated
updateValid(uid, href) == Truthy(uid) /\ Truthy(href)

\* updateEvent / updateTodo: up to the PUT being sent; the caller's copy of the
\* item is of version base and etag is what the caller holds for it
updateItem(p, itemType, calendarUrl, uid, href, etag, base) ==
  /\ CanStart(p)
  /\ nCalls' = nCalls + 1
  /\ LET c == [NoCall EXCEPT !.op = "updateItem", !.itemType = itemType, !.uid = uid,
                             !.href = href, !.etag = etag, !.base = base,
                             !.urlArg = calendarUrl]
     IN call' = [call EXCEPT ![p] =
          IF ~updateValid(uid, href)
          THEN [c EXCEPT !.pc = "done", !.outcome = "rejected", !.error = "Validation"]
          ELSE [c EXCEPT !.pc = "put", !.calendarUrl = normalizedUrl(calendarUrl),
                         !.reqs = <<UpdateRequest(href, etag, itemType, p)>>]]
  /\ UNCHANGED <<serverVars, uuidSeq, fnVars>>

\* updateItem: the server answers the PUT; on success the change-tag is requested
updateItemPut(p) ==
  /\ call[p].op = "updateItem" /\ call[p].pc = "put"
  /\ \E o \in PutOutcomes(call[p].reqs[1]) :
       LET c == call[p] IN
       /\ items' = o.items
       /\ srvCtag' = o.ctag
       /\ call' = [call EXCEPT ![p] =
            IF updateAccepts(o.status)
            THEN [c EXCEPT !.pc = "ctag", !.rEtag = headerEtag(o.etag),
                           !.reqs = Append(Answered(c, o.status, o.etag),
                                           GetCtagRequest(c.calendarUrl))]
            ELSE Reject(c, o.status, IF o.status = 412 THEN "Conflict" ELSE "Failed")]
  /\ UNCHANGED <<nCalls, uuidSeq, fnVars>>

\* updateItem: the change-tag arrives and the call returns
updateItemCtag(p) ==
  /\ call[p].op = "updateItem" /\ call[p].pc = "ctag"
  /\ \E o \in CtagOutcomes :
       LET c == call[p] IN
       call' = [call EXCEPT ![p] =
            IF o.status = 207
            THEN [c EXCEPT !.pc = "done", !.outcome = "resolved", !.newCtag = o.ctag,
                           !.rUid = c.uid, !.rHref = c.href,
                           !.reqs = Answered(c, o.status, o.ctag)]
            ELSE Reject(c, o.status, "Failed")]
  /\ UNCHANGED <<serverVars, nCalls, uuidSeq, fnVars>>

\* "If-Match": etag ?? "*"
deleteIfMatch(etag) == IF etag = Undef THEN Star ELSE etag

\* mutant of deleteAccepts: every 2xx answer counts as success
deleteAccepts_Any2xx(status) == status >= 200 /\ status < 300

\* validateStatus of deleteItem's DELETE
deleteAccepts(status) == status = 204

\* deleteEvent / deleteTodo: up to the DELETE being sent
deleteItem(p, itemType, calendarUrl, uid, etag) ==
  /\ CanStart(p)
  /\ nCalls' = nCalls + 1
  /\ LET href == itemHref(normalizedUrl(calendarUrl), uid)
     IN call' = [call EXCEPT ![p] =
          [NoCall EXCEPT !.op = "deleteItem", !.itemType = itemType, !.uid = uid,
                         !.etag = etag, !.calendarUrl = calendarUrl, !.href = href,
                         !.urlArg = calendarUrl,
                         !.pc = "delete",
                         !.reqs = <<Request("DELETE", href, deleteIfMatch(etag), Undef,
                                            Component(itemType), 0)>>]]
  /\ UNCHANGED <<serverVars, uuidSeq, fnVars>>

\* deleteItem: the server answers and the call returns
deleteItemDone(p) ==
  /\ call[p].op = "deleteItem" /\ call[p].pc = "delete"
  /\ \E o \in DeleteOutcomes(call[p].reqs[1]) :
       LET c == call[p] IN
       /\ items' = o.items
       /\ srvCtag' = o.ctag
       /\ call' = [call EXCEPT ![p] =
            IF deleteAccepts(o.status)
            THEN [c EXCEPT !.pc = "done", !.outcome = "resolved",
                           !.reqs = Answered(c, o.status, Undef)]
            ELSE Reject(c, o.status, "Failed")]
  /\ UNCHANGED <<nCalls, uuidSeq, fnVars>>

\* ------------------------------------------------------------ synchronization
\* localMap.has(href) / remoteMap.has(href)
hasHref(refs, href) == \E i \in 1..Len(refs) : refs[i].href = href

\* new Map(refs.map((i) => [i.href, i.etag])).get(href): the last entry wins
mapGet(refs, href) ==
  LET last == CHOOSE i \in 1..Len(refs) :
                /\ refs[i].href = href
                /\ \A j \in (i + 1)..Len(refs) : refs[j].href # href
  IN refs[last].etag

hrefsOf(refs) == [i \in 1..Len(refs) |-> refs[i].href]

\* mutant of diffRefs: an href counts as updated when the tags agree
diffRefs_SameTag(remoteRefs, localRefs) ==
  LET isNew(r) == ~hasHref(localRefs, r.href)
      isUpdated(r) == hasHref(localRefs, r.href) /\ mapGet(localRefs, r.href) = r.etag
      isDeleted(l) == ~hasHref(remoteRefs, l.href)
  IN [newItems |-> hrefsOf(SelectSeq(remoteRefs, isNew)),
      updatedItems |-> hrefsOf(SelectSeq(remoteRefs, isUpdated)),
      deletedItems |-> hrefsOf(SelectSeq(localRefs, isDeleted))]

\* mutant of diffRefs: local hrefs gone from the server are not reported
diffRefs_NoDeletes(remoteRefs, localRefs) ==
  LET isNew(r) == ~hasHref(localRefs, r.href)
      isUpdated(r) == hasHref(localRefs, r.href) /\ mapGet(localRefs, r.href) # r.etag
  IN [newItems |-> hrefsOf(SelectSeq(remoteRefs, isNew)),
      updatedItems |-> hrefsOf(SelectSeq(remoteRefs, isUpdated)),
      deletedItems |-> <<>>]

\* diffRefs(remoteRefs, localRefs)
diffRefs(remoteRefs, localRefs) ==
  LET isNew(r) == ~hasHref(localRefs, r.href)
      isUpdated(r) == hasHref(localRefs, r.href) /\ mapGet(localRefs, r.href) # r.etag
      isDeleted(l) == ~hasHref(remoteRefs, l.href)
  IN [newItems |-> hrefsOf(SelectSeq(remoteRefs, isNew)),
      updatedItems |-> hrefsOf(SelectSeq(remoteRefs, isUpdated)),
      deletedItems |-> hrefsOf(SelectSeq(localRefs, isDeleted))]

\* mutant of ItemRefsRequest: the query also asks for the item bodies
ItemRefsRequest_WithData(calendarUrl, component) ==
  [Request("REPORT", calendarUrl, Undef, Undef, component, 0) EXCEPT
     !.props = <<"getetag", "calendar-data">>]

\* the calendar-query of getItemRefs: getetag only, filtered by component
ItemRefsRequest(calendarUrl, component) ==
  [Request("REPORT", calendarUrl, Undef, Undef, component, 0) EXCEPT
     !.props = <<"getetag">>]

\* the references the server holds for one component type, as a set
RemoteRefSet(component) ==
  {[href |-> h, etag |-> StrongTag(items[h].ver)] :
     h \in {x \in DOMAIN items : items[x].kind = component}}

\* every order in which a set of references may be listed
Listings(S) ==
  {s \in [1..Cardinality(S) -> S] : \A i, j \in 1..Cardinality(S) : s[i] = s[j] => i = j}

\* the answers to the reference-only REPORT (getItemRefs)
RefsOutcomes(component) ==
  {[status |-> st, refs |-> s] : st \in {200, 207}, s \in Listings(RemoteRefSet(component))}
    \cup {[status |-> 500, refs |-> <<>>]}

\* validateStatus of getItemRefs
refsAccepts(status) == status >= 200 /\ status < 300

\* validateStatus of getCtag
ctagAccepts(status) == status = 207

\* mutants of upToDate: the empty tag is not recognised; the comparison is inverted
upToDate_TagOnly(ctag, remoteCtag) == ctag = remoteCtag
upToDate_Inverted(ctag, remoteCtag) == ~Truthy(ctag) \/ ctag # remoteCtag

\* !ctag || ctag === remoteCtag
upToDate(ctag, remoteCtag) == ~Truthy(ctag) \/ ctag = remoteCtag

\* what the next call of the same caller remembers of call c
PrevOf(c) ==
  IF c.op = "sync" /\ c.outcome = "resolved"
  THEN [valid |-> TRUE, itemType |-> c.itemType, calendarUrl |-> c.calendarUrl,
        ctag |-> c.ctag, localRefs |-> c.localRefs, fetched |-> c.reqs[1].resp,
        changed |-> c.changed]
  ELSE NoPrev

\* both sync operations: up to the change-tag request being sent
syncStart(p, itemType, calendarUrl, ctag, localRefs) ==
  /\ CanStart(p)
  /\ nCalls' = nCalls + 1
  /\ call' = [call EXCEPT ![p] =
       [NoCall EXCEPT !.op = "sync", !.itemType = itemType, !.calendarUrl = calendarUrl,
                      !.urlArg = calendarUrl, !.prev = PrevOf(call[p]),
                      !.ctag = ctag, !.localRefs = localRefs, !.pc = "ctag",
                      !.reqs = <<GetCtagRequest(calendarUrl)>>]]
  /\ UNCHANGED <<serverVars, uuidSeq, fnVars>>

syncChanges(p, calendarUrl, ctag, localEvents) ==
  syncStart(p, "event", calendarUrl, ctag, localEvents)

syncTodoChanges(p, calendarUrl, ctag, localTodos) ==
  syncStart(p, "todo", calendarUrl, ctag, localTodos)

\* sync: the change-tag arrives; return at once, or ask for the references
syncCtag(p) ==
  /\ call[p].op = "sync" /\ call[p].pc = "ctag"
  /\ \E o \in CtagOutcomes :
       LET c == call[p] IN
       call' = [call EXCEPT ![p] =
            IF ~ctagAccepts(o.status) THEN Reject(c, o.status, "Transport")
            ELSE IF upToDate(c.ctag, o.ctag)
            THEN [c EXCEPT !.pc = "done", !.outcome = "resolved", !.changed = FALSE,
                           !.newCtag = o.ctag, !.reqs = Answered(c, o.status, o.ctag)]
            ELSE [c EXCEPT !.pc = "refs", !.newCtag = o.ctag,
                           !.reqs = Append(Answered(c, o.status, o.ctag),
                                           ItemRefsRequest(c.calendarUrl,
                                                           Component(c.itemType)))]]
  /\ UNCHANGED <<serverVars, nCalls, uuidSeq, fnVars>>

\* mutant of syncRefs: the change-tag returned is read again after the
\* references have arrived; another client may have written in between
syncRefs_TagAfterRefs(p) ==
  /\ call[p].op = "sync" /\ call[p].pc = "refs"
  /\ \E o \in RefsOutcomes(call[p].reqs[2].kind), written \in BOOLEAN :
       LET c == call[p]
           d == diffRefs(o.refs, c.localRefs)
           moved == written /\ srvCtag < MaxCtag
       IN /\ items' = IF moved THEN Store(HrefU, "VEVENT", 9) ELSE items
          /\ srvCtag' = IF moved THEN srvCtag + 1 ELSE srvCtag
          /\ call' = [call EXCEPT ![p] =
               IF ~refsAccepts(o.status) THEN Reject(c, o.status, "Transport")
               ELSE [c EXCEPT !.pc = "done", !.outcome = "resolved", !.changed = TRUE,
                              !.remoteRefs = o.refs, !.newItems = d.newItems,
                              !.updatedItems = d.updatedItems,
                              !.deletedItems = d.deletedItems,
                              !.newCtag = CtagText(IF moved THEN srvCtag + 1 ELSE srvCtag),
                              !.reqs = Answered(c, o.status, Undef)]]
  /\ UNCHANGED <<nCalls, uuidSeq, fnVars>>

\* sync: the references arrive, are diffed against the caller's, and the call returns
syncRefs(p) ==
  /\ call[p].op = "sync" /\ call[p].pc = "refs"
  /\ \E o \in RefsOutcomes(call[p].reqs[2].kind) :
       LET c == call[p]
           d == diffRefs(o.refs, c.localRefs)
       IN call' = [call EXCEPT ![p] =
            IF ~refsAccepts(o.status) THEN Reject(c, o.status, "Transport")
            ELSE [c EXCEPT !.pc = "done", !.outcome = "resolved", !.changed = TRUE,
                           !.remoteRefs = o.refs, !.newItems = d.newItems,
                           !.updatedItems = d.updatedItems,
                           !.deletedItems = d.deletedItems,
                           !.reqs = Answered(c, o.status, Undef)]]
  /\ UNCHANGED <<serverVars, nCalls, uuidSeq, fnVars>>

\* another client of the same calendar writes or deletes an object
otherClient ==
  /\ srvCtag < MaxCtag
  /\ \/ items' = Store(HrefU, "VEVENT", 9)
     \/ /\ HrefU \in DOMAIN items
        /\ items' = [h \in DOMAIN items \ {HrefU} |-> items[h]]
  /\ srvCtag' = srvCtag + 1
  /\ UNCHANGED <<clientVars, fnVars>>

\* ------------------------------------------------------------ what callers pass
HrefX == <<"/cal", "/", "x", ".ics">>
\* the versions the server has issued so far: callers hold tags of these only
Versions == 1..srvCtag
CtagInputs == {Empty} \cup {CtagText(n) : n \in Versions}
EtagInputs == {Undef, Empty} \cup {StrongTag(v) : v \in Versions}
                \cup {WeakTag(v) : v \in Versions}
\* the items to update: of each version and rendering of its entity-tag, and
\* two that lack a required field
UpdateInputs ==
  {[uid |-> UidU, href |-> HrefU, etag |-> headerEtag(Render(v, rep)), base |-> v] :
     v \in Versions, rep \in Reps}
    \cup {[uid |-> Empty, href |-> HrefU, etag |-> StrongTag(1), base |-> 1],
          [uid |-> UidU, href |-> Empty, etag |-> StrongTag(1), base |-> 1]}
\* event operations address the calendar without its slash, todo ones with it
CalUrlOf(itemType) == IF itemType = "event" THEN <<"/cal">> ELSE <<"/cal", "/">>
\* createItem is also given no calendar and one written with a doubled slash
CreateInputs ==
  {[itemType |-> t, calendarUrl |-> CalUrlOf(t)] : t \in ItemTypes}
    \cup {[itemType |-> "event", calendarUrl |-> Empty],
          [itemType |-> "event", calendarUrl |-> <<"/cal", "/", "/">>]}
LocalRefInputs ==
  {<<>>,
   <<[href |-> HrefU, etag |-> StrongTag(1)]>>,
   <<[href |-> HrefX, etag |-> StrongTag(1)], [href |-> HrefU, etag |-> StrongTag(2)]>>}

Init ==
  /\ items = (HrefU :> [ver |-> 1, kind |-> "VEVENT", body |-> 0])
  /\ srvCtag = 1
  /\ call = [p \in Procs |-> NoCall]
  /\ nCalls = 0
  /\ uuidSeq = 0
  /\ fnArgs = <<>>
  /\ fnRes = <<>>

Next ==
  \/ \E p \in Procs, i \in CreateInputs, uid \in {Undef, UidU} :
       createItem(p, i.itemType, i.calendarUrl, uid)
  \/ \E p \in Procs : createItemPut(p)
  \/ \E p \in Procs : createItemCtag(p)
  \/ \E p \in Procs, t \in ItemTypes, i \in UpdateInputs :
       updateItem(p, t, CalUrlOf(t), i.uid, i.href, i.etag, i.base)
  \/ \E p \in Procs : updateItemPut(p)
  \/ \E p \in Procs : updateItemCtag(p)
  \/ \E p \in Syncers, t \in ItemTypes, etag \in EtagInputs :
       deleteItem(p, t, CalUrlOf(t), UidU, etag)
  \/ \E p \in Procs : deleteItemDone(p)
  \/ \E p \in Syncers, ctag \in CtagInputs, l \in LocalRefInputs :
       syncChanges(p, CalUrlOf("event"), ctag, l)
  \/ \E p \in Syncers, ctag \in CtagInputs, l \in LocalRefInputs :
       syncTodoChanges(p, CalUrlOf("todo"), ctag, l)
  \/ \E p \in Procs : syncCtag(p)
  \/ \E p \in Procs : syncRefs(p)
  \/ otherClient

Spec == Init /\ [][Next]_vars

\* ------------------------------------------------------------ diffRefs alone
MaxRefs == 3        \* longest reference list given to diffRefs

RefHrefs == {<<"a">>, <<"b">>, <<"c">>}
RefEtags == {StrongTag(1), StrongTag(2)}
AllRefs == {[href |-> h, etag |-> e] : h \in RefHrefs, e \in RefEtags}

\* reference lists keyed by href: no href occurs twice
RefLists ==
  UNION {{s \in [1..n -> AllRefs] : \A i, j \in 1..n : s[i].href = s[j].href => i = j} :
           n \in 0..MaxRefs}

InitDiff ==
  /\ items = (HrefU :> [ver |-> 1, kind |-> "VEVENT", body |-> 0])
  /\ srvCtag = 1
  /\ call = [p \in Procs |-> NoCall]
  /\ nCalls = 0
  /\ uuidSeq = 0
  /\ fnArgs \in {[remoteRefs |-> r, localRefs |-> l] : r \in RefLists, l \in RefLists}
  /\ fnRes = <<>>

\* the call this.diffRefs(remoteRefs, localRefs)
callDiffRefs ==
  /\ fnRes = <<>>
  /\ fnRes' = <<diffRefs(fnArgs.remoteRefs, fnArgs.localRefs)>>
  /\ UNCHANGED <<serverVars, clientVars, fnArgs>>

NextDiff == callDiffRefs

SpecDiff == InitDiff /\ [][NextDiff]_vars

\* ------------------------------------------------------------ the claims
SyncAnswered(c) == c.op = "sync" /\ Len(c.reqs) >= 1 /\ c.reqs[1].status = 207
Fetched(c) == c.reqs[1].resp
Methods(c) == {c.reqs[i].method : i \in 1..Len(c.reqs)}

\* C1: a sync call (syncChanges or syncTodoChanges) whose change-tag argument is
\* empty or equals the change-tag just fetched returns changed = FALSE, three empty
\* href lists and newCtag = the fetched tag, and issues no REPORT.
C1_ShortCircuit ==
  \A p \in Procs :
    LET c == call[p] IN
    (SyncAnswered(c) /\ (c.ctag = Empty \/ c.ctag = Fetched(c)))
      => /\ c.pc = "done" /\ c.outcome = "resolved"
         /\ c.changed = FALSE
         /\ c.newItems = <<>> /\ c.updatedItems = <<>> /\ c.deletedItems = <<>>
         /\ c.newCtag = Fetched(c)
         /\ "REPORT" \notin Methods(c)

\* a todo sync given the tag the server holds has returned
C1_Witness ==
  \E p \in Procs :
    /\ SyncAnswered(call[p]) /\ call[p].itemType = "todo"
    /\ call[p].ctag # Empty /\ call[p].ctag = Fetched(call[p])
    /\ call[p].pc = "done"

SetOf(seq) == {seq[i] : i \in 1..Len(seq)}
NoRepeats(seq) == \A i, j \in 1..Len(seq) : seq[i] = seq[j] => i = j

\* C2: diffRefs joins on href: new = the hrefs of R absent from L, updated = the
\* hrefs in both whose entity-tags differ, deleted = the hrefs of L absent from R;
\* hrefs in both with equal tags are in no list, and no href is in two lists.
C2_DiffPartition ==
  fnRes # <<>> =>
    LET R == SetOf(fnArgs.remoteRefs)
        L == SetOf(fnArgs.localRefs)
        d == fnRes[1]
        new == SetOf(d.newItems)
        upd == SetOf(d.updatedItems)
        del == SetOf(d.deletedItems)
    IN /\ new = {r.href : r \in {x \in R : \A l \in L : l.href # x.href}}
       /\ upd = {r.href : r \in {x \in R : \E l \in L : l.href = x.href /\ l.etag # x.etag}}
       /\ del = {l.href : l \in {x \in L : \A r \in R : r.href # x.href}}
       /\ \A r \in R : (\E l \in L : l = r) => r.href \notin new \cup upd \cup del
       /\ new \cap upd = {} /\ new \cap del = {} /\ upd \cap del = {}
       /\ NoRepeats(d.newItems) /\ NoRepeats(d.updatedItems) /\ NoRepeats(d.deletedItems)

\* the mixed case: a unchanged, b updated, c new
C2_Witness ==
  /\ fnArgs.localRefs = <<[href |-> <<"a">>, etag |-> StrongTag(1)],
                          [href |-> <<"b">>, etag |-> StrongTag(2)]>>
  /\ fnArgs.remoteRefs = <<[href |-> <<"a">>, etag |-> StrongTag(1)],
                           [href |-> <<"b">>, etag |-> StrongTag(1)],
                           [href |-> <<"c">>, etag |-> StrongTag(2)]>>
  /\ fnRes = <<[newItems |-> << <<"c">> >>, updatedItems |-> << <<"b">> >>,
                deletedItems |-> <<>>]>>

\* a sync call that has returned after an identical sync call of the same caller,
\* both having fetched the same change-tag (no server change in between)
Repeated(c) ==
  /\ c.op = "sync" /\ c.pc = "done" /\ c.outcome = "resolved"
  /\ c.prev.valid
  /\ c.prev.itemType = c.itemType /\ c.prev.calendarUrl = c.calendarUrl
  /\ c.prev.ctag = c.ctag /\ c.prev.localRefs = c.localRefs
  /\ c.prev.fetched = Fetched(c)

\* C3 as stated: two sync calls with the same arguments and no server change between
\* them both return changed = FALSE.
C3_Original ==
  \A p \in Procs :
    Repeated(call[p]) => (call[p].prev.changed = FALSE /\ call[p].changed = FALSE)

\* C3 amended: two such calls return the same changed flag: FALSE both times when
\* the change-tag argument is empty or equals the server's, TRUE both times otherwise.
C3_SameAnswer ==
  \A p \in Procs :
    LET c == call[p] IN
    Repeated(c) =>
      /\ c.changed = c.prev.changed
      /\ c.changed = ~(c.ctag = Empty \/ c.ctag = Fetched(c))

\* the repeated call was given a stale change-tag
C3_Witness ==
  \E p \in Procs :
    /\ Repeated(call[p])
    /\ call[p].ctag # Empty /\ call[p].ctag # Fetched(call[p])

UpdateSent(c) == c.op = "updateItem" /\ Len(c.reqs) >= 1

\* C4: the PUT of updateEvent / updateTodo carries no If-Match header when the item's
\* entity-tag begins with the weak marker W/, and If-Match = the entity-tag when it
\* is a strong one.
C4_WeakSuppressed ==
  \A p \in Procs :
    LET c == call[p] IN
    (UpdateSent(c) /\ Truthy(c.etag)) =>
      c.reqs[1].ifMatch = (IF c.etag[1] = "W/" THEN Undef ELSE c.etag)

Accepted(c) == UpdateSent(c) /\ c.reqs[1].status >= 200 /\ c.reqs[1].status < 300

\* two update calls of the same item by two callers holding the same version of it
Racing(p, q) ==
  /\ p # q
  /\ UpdateSent(call[p]) /\ UpdateSent(call[q])
  /\ call[p].href = call[q].href
  /\ call[p].base = call[q].base

\* at most one of the two writes was accepted, and a 412 answer is the conflict error
Protected(p, q) ==
  /\ ~(Accepted(call[p]) /\ Accepted(call[q]))
  /\ call[q].reqs[1].status = 412 =>
       (call[q].outcome = "rejected" /\ call[q].error = "Conflict")

\* C5 as stated: of two overlapping updates of one item, each carrying the entity-tag
\* of the version its caller saw, the second to reach the server is refused with the
\* conflict error and does not replace the first, whatever tag the callers hold
\* (strong, weak-prefixed or empty).
C5_Original == \A p, q \in Procs : Racing(p, q) => Protected(p, q)

\* C5 amended: the same, for callers that hold a non-empty entity-tag (strong or
\* weak-prefixed).
C5_LostUpdate ==
  \A p, q \in Procs :
    (Racing(p, q) /\ call[p].etag # Empty /\ call[q].etag # Empty) => Protected(p, q)

\* one write landed and the other, carrying a weak-prefixed tag, got the conflict error
C5_Witness ==
  \E p, q \in Procs :
    /\ Racing(p, q) /\ Accepted(call[p])
    /\ call[q].etag = WeakTag(call[q].base)
    /\ call[q].reqs[1].status = 412 /\ call[q].error = "Conflict"

CreateSent(c) == c.op = "createItem" /\ Len(c.reqs) >= 1

\* the step in which the server answers the PUT of p's createItem
CreatePutAnswered(p) ==
  /\ call[p].op = "createItem" /\ call[p].pc = "put"
  /\ call'[p].pc # "put"

\* C6: createEvent / createTodo of a uid that already exists in the calendar fails
\* with the conflict error and leaves the stored item as it was: the PUT always
\* carries If-None-Match: *, and a 412 answer is never reported as success.
C6_DuplicateCreate ==
  /\ [](\A p \in Procs :
          CreateSent(call[p]) =>
            /\ call[p].reqs[1].method = "PUT"
            /\ call[p].reqs[1].ifNoneMatch = Star
            /\ call[p].reqs[1].status = 412 =>
                 (call[p].outcome = "rejected" /\ call[p].error = "Conflict"))
  /\ [][\A p \in Procs :
          (CreatePutAnswered(p) /\ call[p].href \in DOMAIN items) =>
            /\ items' = items
            /\ call'[p].outcome = "rejected"
            /\ call'[p].reqs[1].status \in {412, 500}
            /\ call'[p].reqs[1].status = 412 => call'[p].error = "Conflict"]_vars

\* a create with the explicit uid of the stored event was refused as a conflict
C6_Witness ==
  \E p \in Procs :
    /\ CreateSent(call[p]) /\ call[p].uid = UidU
    /\ call[p].reqs[1].status = 412
    /\ call[p].error = "Conflict" /\ call[p].outcome = "rejected"
    /\ HrefU \in DOMAIN items /\ items[HrefU].body = 0

\* C7: a successful createEvent / createTodo asks for the change-tag only after its
\* PUT was answered 201 or 204 and returns the tag it then got as newCtag; the etag
\* it returns is the ETag header of the PUT's answer, or "" when there was none.
C7_CreateResult ==
  \A p \in Procs :
    LET c == call[p] IN
    /\ (c.op = "createItem" /\ Len(c.reqs) >= 2) =>
         /\ c.reqs[1].method = "PUT" /\ c.reqs[1].status \in {201, 204}
         /\ c.reqs[2].method = "PROPFIND" /\ c.reqs[2].kind = "getctag"
    /\ (c.op = "createItem" /\ c.outcome = "resolved") =>
         /\ Len(c.reqs) = 2 /\ c.reqs[2].status = 207
         /\ c.newCtag = c.reqs[2].resp
         /\ c.rEtag = (IF c.reqs[1].resp = Undef THEN Empty ELSE c.reqs[1].resp)

\* a create answered 204 without an ETag header has returned an empty etag
C7_Witness ==
  \E p \in Procs :
    /\ call[p].op = "createItem" /\ call[p].outcome = "resolved"
    /\ call[p].reqs[1].status = 204 /\ call[p].reqs[1].resp = Undef
    /\ call[p].rEtag = Empty

\* calendarUrl without its trailing slash
WithoutSlash(url) == IF url # Empty /\ url[Len(url)] = "/" THEN SubSeq(url, 1, Len(url) - 1) ELSE url

\* C8: createEvent / createTodo write to and return calendarUrl + "/" + uid + ".ics"
\* (calendarUrl without its trailing slash; uid the caller's, or a generated one), and
\* deleteEvent / deleteTodo of the same calendarUrl and uid address that very href.
C8_DerivedHref ==
  /\ \A p \in Procs :
       LET c == call[p]
           want == WithoutSlash(c.urlArg) \o <<"/">> \o c.rUid \o <<".ics">>
       IN /\ CreateSent(c) =>
               /\ c.reqs[1].url = want
               /\ c.uid # Undef => c.rUid = c.uid
          /\ (c.op = "createItem" /\ c.outcome = "resolved") => c.rHref = want
  /\ \A p, q \in Procs :
       (/\ call[p].op = "createItem" /\ call[p].outcome = "resolved"
        /\ call[q].op = "deleteItem"
        /\ call[q].urlArg = call[p].urlArg /\ call[q].uid = call[p].rUid)
         => call[q].reqs[1].url = call[p].rHref

\* C9: updateEvent / updateTodo of an item without uid or without href fails with
\* the validation error before any request is issued, the server left as it was.
C9_UpdateValidation ==
  /\ [](\A p \in Procs :
          (call[p].op = "updateItem" /\ (call[p].uid = Empty \/ call[p].href = Empty)) =>
            /\ call[p].pc = "done" /\ call[p].outcome = "rejected"
            /\ call[p].error = "Validation"
            /\ call[p].reqs = <<>>)
  /\ [][\A p \in Procs :
          (/\ call'[p] # call[p] /\ call'[p].op = "updateItem"
           /\ (call'[p].uid = Empty \/ call'[p].href = Empty)) =>
            UNCHANGED serverVars]_vars

\* an update of an item without href was refused
C9_Witness ==
  \E p \in Procs :
    /\ call[p].op = "updateItem" /\ call[p].href = Empty /\ call[p].uid = UidU
    /\ call[p].error = "Validation"

\* C10: deleteEvent / deleteTodo send one DELETE whose If-Match is the entity-tag
\* given, or * when none is given; the call resolves when the answer is 204 and
\* fails on every other status.
C10_Delete ==
  \A p \in Procs :
    LET c == call[p] IN
    c.op = "deleteItem" =>
      /\ Len(c.reqs) = 1 /\ c.reqs[1].method = "DELETE"
      /\ c.reqs[1].ifMatch = (IF c.etag = Undef THEN Star ELSE c.etag)
      /\ c.outcome = "resolved" <=> c.reqs[1].status = 204
      /\ c.outcome = "rejected" <=> c.reqs[1].status \notin {0, 204}

\* a delete without entity-tag was answered 200 and therefore failed, the item gone
C10_Witness ==
  \E p \in Procs :
    /\ call[p].op = "deleteItem" /\ call[p].etag = Undef
    /\ call[p].reqs[1].ifMatch = Star
    /\ call[p].reqs[1].status = 200 /\ call[p].outcome = "rejected"
    /\ HrefU \notin DOMAIN items

\* ============================================================ decoders
\* The main machine at rest, for the specifications of single functions.
AtRest ==
  /\ items = (HrefU :> [ver |-> 1, kind |-> "VEVENT", body |-> 0])
  /\ srvCtag = 1
  /\ call = [p \in Procs |-> NoCall]
  /\ nCalls = 0
  /\ uuidSeq = 0

\* What fast-xml-parser yields for a child element that may repeat: nothing
\* when it is absent, the value itself when it occurs once, an array when it
\* occurs several times.  v holds the occurrences in document order.
XmlNone == [shape |-> "none", v |-> <<>>]
XmlOne(x) == [shape |-> "one", v |-> <<x>>]
XmlMany(xs) == [shape |-> "many", v |-> xs]

\* Array.isArray(value) ? value : value ? [value] : []
toArray(value) ==
  CASE value.shape = "many" -> value.v
    [] value.shape = "one" -> <<value.v[1]>>
    [] OTHER -> <<>>

\* one character run of a status line, lower-cased
lowerToken(t) ==
  CASE t = "OK" -> "ok"
    [] t = "Ok" -> "ok"
    [] t = "Not" -> "not"
    [] t = "Found" -> "found"
    [] t = "HTTP/1.1" -> "http/1.1"
    [] OTHER -> t

\* s.toLowerCase()
toLowerCase(s) == [i \in DOMAIN s |-> lowerToken(s[i])]

\* s.includes(sub)
includes(s, sub) ==
  \E i \in 1..(Len(s) - Len(sub) + 1) : SubSeq(s, i, i + Len(sub) - 1) = sub

\* ------------------------------------------------------- parseCalendars
KnownComponents ==
  {"VEVENT", "VTODO", "VJOURNAL", "VFREEBUSY", "VTIMEZONE", "VAVAILABILITY"}

\* typeof p?.status === "string" && p.status.toLowerCase().includes("200 ok")
isOkPropstat_AnyStatus(p) == p.status # Undef

isOkPropstat(p) ==
  p.status # Undef /\ includes(toLowerCase(p.status), <<"200", "ok">>)

\* propstats.find(isOkPropstat): the index of the first match, 0 for none
findOk(propstats) ==
  IF \E i \in DOMAIN propstats : isOkPropstat(propstats[i])
  THEN CHOOSE i \in DOMAIN propstats :
         /\ isOkPropstat(propstats[i])
         /\ \A j \in 1..(i - 1) : ~isOkPropstat(propstats[j])
  ELSE 0

\* compArray.map(c => c.name).filter(name => [...].includes(name))
supportedOf(prop) ==
  SelectSeq(toArray(prop.comp), LAMBDA name : name \in KnownComponents)

\* !supportedComponents.includes("VEVENT") && !supportedComponents.includes("VTODO")
neitherComponent(supportedComponents) ==
  /\ \A i \in DOMAIN supportedComponents : supportedComponents[i] # "VEVENT"
  /\ \A i \in DOMAIN supportedComponents : supportedComponents[i] # "VTODO"

\* the calendars one response entry contributes (none or one)
calendarOf(res) ==
  LET propstats == toArray(res.propstat)
      k == findOk(propstats)
  IN IF k = 0 THEN <<>>
     ELSE LET prop == propstats[k].prop
              supportedComponents == supportedOf(prop)
          IN IF neitherComponent(supportedComponents) THEN <<>>
             ELSE <<[displayName |-> IF prop.displayname = Undef THEN Empty
                                     ELSE prop.displayname,
                     url |-> res.href,
                     ctag |-> prop.getctag,
                     supportedComponents |-> supportedComponents]>>

RECURSIVE calendarsFrom(_)
calendarsFrom(responses) ==
  IF responses = <<>> THEN <<>>
  ELSE calendarOf(Head(responses)) \o calendarsFrom(Tail(responses))

\* parseCalendars(responseData), responseData already parsed into its tree
parseCalendars(jsonData) == calendarsFrom(toArray(jsonData.response))

\* ---- directory listings the server may answer with
StatusOk == <<"HTTP/1.1", "200", "OK">>
StatusNotFound == <<"HTTP/1.1", "404", "Not", "Found">>

CompSets ==
  {XmlNone,
   XmlOne("VEVENT"), XmlOne("VTODO"), XmlOne("VJOURNAL"), XmlOne("VPOLL"),
   XmlMany(<<"VEVENT", "VTODO">>), XmlMany(<<"VJOURNAL", "VFREEBUSY">>),
   XmlMany(<<"VJOURNAL", "VTODO">>)}

OkPropstats ==
  {[status |-> st,
    prop |-> [displayname |-> d, getctag |-> <<"ctag">>, comp |-> c]] :
     st \in {StatusOk, <<"HTTP/1.1", "200", "Ok">>}, d \in {<<"Work">>}, c \in CompSets}
  \cup {[status |-> StatusOk,
         prop |-> [displayname |-> Undef, getctag |-> Undef, comp |-> XmlOne("VEVENT")]]}

\* the properties the resource does not have, reported with 404 and no values
FailedPropstat ==
  [status |-> StatusNotFound,
   prop |-> [displayname |-> Undef, getctag |-> Undef, comp |-> XmlNone]]

\* propstat children of one entry: properties are grouped by status, so each
\* status occurs at most once
PropstatShapes ==
  {XmlNone, XmlOne(FailedPropstat)}
  \cup {XmlOne(p) : p \in OkPropstats}
  \cup {XmlMany(<<p, FailedPropstat>>) : p \in OkPropstats}
  \cup {XmlMany(<<FailedPropstat, p>>) : p \in {q \in OkPropstats : q.status = StatusOk}}

EntryHref(i) == <<"/cal", "/", ToString(i), "/">>

Directories ==
  {[response |-> XmlNone]}
  \cup {[response |-> XmlOne([href |-> EntryHref(1), propstat |-> ps])] :
          ps \in PropstatShapes}
  \cup {[response |-> XmlMany(<<[href |-> EntryHref(1), propstat |-> p1],
                                [href |-> EntryHref(2), propstat |-> p2]>>)] :
          p1 \in PropstatShapes,
          p2 \in {XmlNone, XmlOne(FailedPropstat),
                  XmlOne(CHOOSE p \in OkPropstats : p.prop.displayname = Undef),
                  XmlMany(<<FailedPropstat,
                            [status |-> StatusOk,
                             prop |-> [displayname |-> <<"Work">>, getctag |-> <<"ctag">>,
                                       comp |-> XmlOne("VJOURNAL")]]>>)}}

InitCalendars ==
  /\ AtRest
  /\ fnArgs \in {[fn |-> "parseCalendars", data |-> d] : d \in Directories}
  /\ fnRes = <<>>

\* return parseCalendars(response.data)
callParseCalendars ==
  /\ fnRes = <<>>
  /\ fnArgs.fn = "parseCalendars"
  /\ fnRes' = <<parseCalendars(fnArgs.data)>>
  /\ UNCHANGED <<serverVars, clientVars, fnArgs>>

NextCalendars == callParseCalendars

SpecCalendars == InitCalendars /\ [][NextCalendars]_vars

\* ---- C11
\* the entry has a propstat with success status whose properties advertise
\* VEVENT or VTODO
Listable(res) ==
  \E i \in DOMAIN res.propstat.v :
    LET p == res.propstat.v[i]
    IN /\ p.status # Undef
       /\ \E k \in 1..(Len(p.status) - 1) :
            p.status[k] = "200" /\ p.status[k + 1] \in {"OK", "Ok", "ok"}
       /\ \E j \in DOMAIN p.prop.comp.v : p.prop.comp.v[j] \in {"VEVENT", "VTODO"}

\* C11: the list getCalendars returns holds, in response order, exactly the
\* directory entries that have a propstat with success status advertising
\* VEVENT or VTODO; every other entry is left out and nothing is thrown (the
\* call always yields a list).
C11_CalendarList ==
  (fnRes # <<>> /\ fnArgs.fn = "parseCalendars") =>
    LET entries == fnArgs.data.response.v
        kept == SelectSeq(entries, Listable)
        out == fnRes[1]
    IN /\ Len(out) = Len(kept)
       /\ \A i \in DOMAIN out : out[i].url = kept[i].href

\* a listing of two entries, one a calendar and one with only a failed
\* propstat, decoded to the one calendar
C11_Witness ==
  /\ fnRes # <<>> /\ fnArgs.fn = "parseCalendars"
  /\ Len(fnArgs.data.response.v) = 2
  /\ fnArgs.data.response.v[2].propstat = XmlOne(FailedPropstat)
  /\ Len(fnRes[1]) = 1
  /\ fnRes[1][1].url = EntryHref(1)

\* ============================================================ create
Null == <<"null">>                  \* JavaScript null
Slash == <<"/">>

\* path.substring(n)
substring(path, n) == SubSeq(path, n + 1, Len(path))

\* a mutation of resolveUrl: the path is kept as the server gave it
resolveUrl_Kept(basePath, path) == path

\* this.resolveUrl(path), basePath being new URL(this.baseUrl).pathname
resolveUrl(basePath, path) ==
  IF startsWith(path, basePath) /\ basePath # Slash
  THEN LET stripped == substring(path, Len(basePath))
       IN IF startsWith(stripped, Slash) THEN stripped ELSE Slash \o stripped
  ELSE path

\* isGoogle ? `/caldav/v2/` : "/"
discoveryPath(isGoogle) ==
  IF isGoogle THEN <<"/", "caldav", "/", "v2", "/">> ELSE Slash

\* validateStatus: (status) => status >= 200 && status < 300
identityAccepts_Any(status) == TRUE

identityAccepts(status) == status >= 200 /\ status < 300

\* httpClient.request({ method: "PROPFIND", url, data, headers: { Depth: "0" } })
Propfind(url, asks) ==
  [method |-> "PROPFIND", url |-> url, asks |-> asks, depth |-> "0",
   status |-> 0, kind |-> "none", href |-> Undef]

\* the client new CalDAVClient(options) constructs
NewClient ==
  [pc |-> "new", userPrincipal |-> Null, calendarHome |-> Null, reqs |-> <<>>,
   outcome |-> "pending", error |-> "none"]

\* ---- what the server may answer to the two queries
Statuses == {200, 207, 401}

\* the body of an answer: without the property asked for, with the property
\* but no href in it, or with an href
\* paths with and without a base path in front, as servers return them
ServerPaths ==
  {<<"/", "dav", "/", "principals", "/", "u", "/">>,
   <<"/", "principals", "/", "u", "/">>,
   <<"/", "dav", "ical", "/", "u", "/">>,
   <<"/", "caldav", "/", "v2", "/", "u", "/">>}

Bodies ==
  {[kind |-> "noprop", href |-> Undef], [kind |-> "nohref", href |-> Undef]}
  \cup {[kind |-> "href", href |-> h] : h \in ServerPaths}

CreateOptions ==
  {[fn |-> "create", basePath |-> b, isGoogle |-> FALSE] :
     b \in {Slash, <<"/", "dav">>, <<"/", "dav", "/">>}}
  \cup {[fn |-> "create", basePath |-> b, isGoogle |-> TRUE] :
          b \in {Slash, <<"/", "caldav", "/", "v2", "/">>}}

InitCreate ==
  /\ AtRest
  /\ fnArgs \in CreateOptions
  /\ fnRes = <<>>

\* the request log with its last request answered
answeredWith(reqs, status, body) ==
  [reqs EXCEPT ![Len(reqs)] =
     [@ EXCEPT !.status = status, !.kind = body.kind, !.href = body.href]]

\* CalDAVClient.create, up to the discovery request of validateCredentials
create ==
  /\ fnRes = <<>>
  /\ fnArgs.fn = "create"
  /\ fnRes' = <<[NewClient EXCEPT
                  !.pc = "validateCredentials",
                  !.reqs = <<Propfind(resolveUrl(fnArgs.basePath,
                                                 discoveryPath(fnArgs.isGoogle)),
                                      "current-user-principal")>>]>>
  /\ UNCHANGED <<serverVars, clientVars, fnArgs>>

\* validateCredentials after its request is answered, and on success the
\* calendar-home request of fetchCalendarHome
validateCredentials ==
  /\ fnRes # <<>>
  /\ fnArgs.fn = "create"
  /\ fnRes[1].pc = "validateCredentials"
  /\ \E status \in Statuses, body \in Bodies :
       LET c == fnRes[1]
           reqs == answeredWith(c.reqs, status, body)
       IN IF ~identityAccepts(status) \/ body.kind # "href"
          THEN \* axios rejects, the property is missing, or reading its href
               \* throws: all are caught and rethrown
               fnRes' = <<[c EXCEPT !.pc = "done", !.reqs = reqs,
                                     !.outcome = "rejected",
                                     !.error = "Invalid credentials"]>>
          ELSE LET userPrincipal == resolveUrl(fnArgs.basePath, body.href)
               IN fnRes' = <<[c EXCEPT
                    !.pc = "fetchCalendarHome",
                    !.userPrincipal = userPrincipal,
                    !.reqs = Append(reqs,
                       Propfind(IF Truthy(userPrincipal) THEN userPrincipal ELSE Empty,
                                "calendar-home-set"))]>>
  /\ UNCHANGED <<serverVars, clientVars, fnArgs>>

\* fetchCalendarHome after its request is answered, and the return of create
fetchCalendarHome ==
  /\ fnRes # <<>>
  /\ fnArgs.fn = "create"
  /\ fnRes[1].pc = "fetchCalendarHome"
  /\ \E status \in Statuses, body \in Bodies :
       LET c == fnRes[1]
           reqs == answeredWith(c.reqs, status, body)
       IN CASE ~identityAccepts(status) ->
                 fnRes' = <<[c EXCEPT !.pc = "done", !.reqs = reqs,
                                       !.outcome = "rejected",
                                       !.error = "AxiosError"]>>
            [] identityAccepts(status) /\ body.kind # "href" ->
                 fnRes' = <<[c EXCEPT !.pc = "done", !.reqs = reqs,
                                       !.outcome = "rejected",
                                       !.error = "TypeError"]>>
            [] OTHER ->
                 fnRes' = <<[c EXCEPT !.pc = "done", !.reqs = reqs,
                                       !.calendarHome = resolveUrl(fnArgs.basePath, body.href),
                                       !.outcome = "resolved"]>>
  /\ UNCHANGED <<serverVars, clientVars, fnArgs>>

NextCreate == create \/ validateCredentials \/ fetchCalendarHome

SpecCreate == InitCreate /\ [][NextCreate]_vars

\* ---- C12
Creating == fnRes # <<>> /\ fnArgs.fn = "create"

\* C12: create asks for current-user-principal first and for
\* calendar-home-set second, the second at the normalized principal path; a
\* discovery answer outside 2xx or without the property fails create with
\* 'Invalid credentials' and no second query is issued; a resolved create
\* has userPrincipal and calendarHome set.
C12_CreateOrder ==
  Creating =>
    LET c == fnRes[1]
    IN /\ Len(c.reqs) \in 1..2
       /\ c.reqs[1].asks = "current-user-principal"
       /\ Len(c.reqs) = 2 =>
            /\ c.reqs[2].asks = "calendar-home-set"
            /\ c.reqs[2].url = c.userPrincipal
            /\ c.userPrincipal # Null
       /\ (c.reqs[1].status # 0 /\
            (c.reqs[1].status \notin 200..299 \/ c.reqs[1].kind = "noprop")) =>
            /\ c.outcome = "rejected"
            /\ c.error = "Invalid credentials"
            /\ Len(c.reqs) = 1
       /\ c.outcome = "resolved" =>
            /\ c.userPrincipal \notin {Null, Undef, Empty}
            /\ c.calendarHome \notin {Null, Undef, Empty}

\* a 401 to discovery ended create with one request made
C12_Witness ==
  /\ Creating
  /\ fnRes[1].reqs[1].status = 401
  /\ fnRes[1].outcome = "rejected"
  /\ Len(fnRes[1].reqs) = 1

\* a create that resolved after both queries
C12_WitnessResolved ==
  Creating /\ fnRes[1].outcome = "resolved" /\ Len(fnRes[1].reqs) = 2

\* ---- C13
\* the base path without its closing slash
BaseSegment(basePath) ==
  IF basePath # Slash /\ endsWith(basePath, "/") THEN sliceLast(basePath) ELSE basePath

RECURSIVE trimSlashStart(_)
trimSlashStart(s) == IF Len(s) >= 1 /\ s[1] = "/" THEN trimSlashStart(Tail(s)) ELSE s

\* baseURL.replace(/\/?\/$/, "")
trimSlashEnd(s) ==
  IF Len(s) >= 2 /\ s[Len(s)] = "/" /\ s[Len(s) - 1] = "/" THEN SubSeq(s, 1, Len(s) - 2)
  ELSE IF endsWith(s, "/") THEN sliceLast(s) ELSE s

\* the path a request reaches: axios joins baseURL and url with one slash
FullPath(basePath, url) ==
  trimSlashEnd(basePath) \o Slash \o trimSlashStart(url)

\* how often path holds seg as whole path segments
Occurrences(seg, path) ==
  Cardinality({i \in 1..Len(path) :
                 /\ i + Len(seg) - 1 <= Len(path)
                 /\ SubSeq(path, i, i + Len(seg) - 1) = seg
                 /\ (i + Len(seg) <= Len(path) => path[i + Len(seg)] = "/")})

\* what is stored for the path the server returned
StoredRight(basePath, returned, stored) ==
  IF basePath # Slash /\ startsWith(returned, basePath)
  THEN /\ Len(stored) >= 1 /\ stored[1] = "/"
       /\ Len(stored) >= 2 => stored[2] # "/"
       /\ \/ basePath \o stored = returned
          \/ basePath \o Tail(stored) = returned
  ELSE stored = returned

\* C13: a returned principal or calendar-home path that begins with the base
\* path P (P not "/") is stored without that prefix and with one leading
\* slash; otherwise it is stored unchanged; and no request of create reaches
\* a path holding the base path segment twice.
C13_PathNormalization ==
  Creating =>
    LET c == fnRes[1]
        P == fnArgs.basePath
    IN /\ c.userPrincipal # Null => StoredRight(P, c.reqs[1].href, c.userPrincipal)
       /\ c.calendarHome # Null => StoredRight(P, c.reqs[2].href, c.calendarHome)
       /\ P # Slash =>
            \A i \in DOMAIN c.reqs :
              Occurrences(BaseSegment(P), FullPath(P, c.reqs[i].url)) = 1

\* base path /dav/, the server echoes /dav/principals/u/ twice
C13_Witness ==
  /\ Creating
  /\ fnArgs.basePath = <<"/", "dav", "/">>
  /\ fnRes[1].outcome = "resolved"
  /\ fnRes[1].reqs[1].href = <<"/", "dav", "/", "principals", "/", "u", "/">>
  /\ fnRes[1].userPrincipal = <<"/", "principals", "/", "u", "/">>
  /\ fnRes[1].reqs[2].url = <<"/", "principals", "/", "u", "/">>
  /\ fnRes[1].calendarHome = <<"/", "principals", "/", "u", "/">>

\* ============================================================ getComponents
\* A Date is its number of milliseconds; NoDate stands for an omitted Date.
NoDate == -1

\* formatDate(date): toISOString() cut at the ".", the text of whole seconds
formatDate(date) == [seconds |-> date \div 1000]

\* 3 * 7 * 24 * 60 * 60 * 1000
ThreeWeeks == 3 * 7 * 24 * 60 * 60 * 1000

\* const { start = now, end = defaultEnd, all } = options || {}
startOf(options, now) == IF options.start = NoDate THEN now ELSE options.start
endOf(options, now) == IF options.end = NoDate THEN now + ThreeWeeks ELSE options.end

\* a Date object is truthy, undefined is not
isDate(d) == d # NoDate

NoRange == [given |-> FALSE, start |-> formatDate(0), end |-> formatDate(0)]
Range(start, end) == [given |-> TRUE, start |-> formatDate(start), end |-> formatDate(end)]

\* timeRangeFilter: <c:time-range start end /> inside the comp-filter, or none
timeRangeFilter(start, end, all) ==
  IF isDate(start) /\ isDate(end) /\ all # "true" THEN Range(start, end) ELSE NoRange

\* calendarData: <c:expand start end /> inside calendar-data, or none
calendarData(start, end) ==
  IF isDate(start) /\ isDate(end) THEN Range(start, end) ELSE NoRange

\* the REPORT getComponents sends
ComponentQuery(calendarUrl, component, options, now) ==
  LET start == startOf(options, now)
      end == endOf(options, now)
  IN [method |-> "REPORT", url |-> calendarUrl, depth |-> "1",
      component |-> component,
      timeRange |-> timeRangeFilter(start, end, options.all),
      expand |-> calendarData(start, end)]

queryAccepts(status) == status >= 200 /\ status < 300

\* ---- the calls made
Dates == {1500, 86400000}
Clock == {1000, 7777}

QueryOptions ==
  {[start |-> st, end |-> en, all |-> a] :
     st \in Dates \cup {NoDate}, en \in {2500, 172800000} \cup {NoDate},
     a \in {"undefined", "true", "false"}}

InitQuery ==
  /\ AtRest
  /\ fnArgs \in {[fn |-> "getComponents", calendarUrl |-> CalUrlOf(t),
                  component |-> Component(t), options |-> o, now |-> n] :
                   t \in ItemTypes, o \in QueryOptions, n \in Clock}
  /\ fnRes = <<>>

\* getEvents / getTodos -> getComponents, to the REPORT
getComponents ==
  /\ fnRes = <<>>
  /\ fnArgs.fn = "getComponents"
  /\ fnRes' = <<[pc |-> "sent",
                 req |-> ComponentQuery(fnArgs.calendarUrl, fnArgs.component,
                                        fnArgs.options, fnArgs.now),
                 status |-> 0, outcome |-> "pending", error |-> "none"]>>
  /\ UNCHANGED <<serverVars, clientVars, fnArgs>>

\* the answer: parseFn(response.data) or the rethrown failure
getComponentsDone ==
  /\ fnRes # <<>>
  /\ fnArgs.fn = "getComponents"
  /\ fnRes[1].pc = "sent"
  /\ \E status \in {200, 207, 500} :
       fnRes' = <<[fnRes[1] EXCEPT
                    !.pc = "done",
                    !.status = status,
                    !.outcome = IF queryAccepts(status) THEN "resolved" ELSE "rejected",
                    !.error = IF queryAccepts(status) THEN "none"
                              ELSE "Failed to retrieve"]>>
  /\ UNCHANGED <<serverVars, clientVars, fnArgs>>

NextQuery == getComponents \/ getComponentsDone

SpecQuery == InitQuery /\ [][NextQuery]_vars

\* ---- C14
Querying == fnRes # <<>> /\ fnArgs.fn = "getComponents"

\* C14: with a time range given and all not set, the request has a time-range
\* filter and an expand instruction, both for that window; with all set it
\* has neither a time-range filter nor an expand instruction.
C14_RangeOrAll ==
  Querying =>
    LET o == fnArgs.options
        r == fnRes[1].req
    IN /\ (o.start # NoDate /\ o.end # NoDate /\ o.all # "true") =>
            /\ r.timeRange = [given |-> TRUE, start |-> [seconds |-> o.start \div 1000],
                              end |-> [seconds |-> o.end \div 1000]]
            /\ r.expand = r.timeRange
       /\ o.all = "true" => (~r.timeRange.given /\ ~r.expand.given)

\* the half of the statement the code keeps: the range case, and no
\* time-range filter under all
C14_RangeCase ==
  Querying =>
    LET o == fnArgs.options
        r == fnRes[1].req
    IN /\ (o.start # NoDate /\ o.end # NoDate /\ o.all # "true") =>
            /\ r.timeRange = [given |-> TRUE, start |-> [seconds |-> o.start \div 1000],
                              end |-> [seconds |-> o.end \div 1000]]
            /\ r.expand = r.timeRange
       /\ o.all = "true" => ~r.timeRange.given

\* getEvents(calendarUrl, { all: true }) sent an expand instruction
C14_AllExpands ==
  /\ Querying
  /\ fnArgs.options = [start |-> NoDate, end |-> NoDate, all |-> "true"]
  /\ fnRes[1].req.expand.given
  /\ ~fnRes[1].req.timeRange.given

\* ============================================================ item codec
\* An iCalendar document is modelled as its component tree.  A date or
\* date-time property holds a day number (VALUE=DATE) or a number of whole
\* seconds; utc says whether the text ends in the UTC marker "Z"; tzid is
\* its TZID parameter.
Second == 1000
Hour == 3600000
Day == 86400000

NoNums == <<-1>>                    \* an omitted list of numbers

NoTime == [present |-> FALSE, isDate |-> FALSE, value |-> 0, utc |-> FALSE, tzid |-> Undef]
DateValue(day) ==
  [present |-> TRUE, isDate |-> TRUE, value |-> day, utc |-> FALSE, tzid |-> Undef]
UtcValue(seconds, tzid) ==
  [present |-> TRUE, isDate |-> FALSE, value |-> seconds, utc |-> TRUE, tzid |-> tzid]
LocalValue(seconds, tzid) ==
  [present |-> TRUE, isDate |-> FALSE, value |-> seconds, utc |-> FALSE, tzid |-> tzid]

\* a recurrence rule, in the model and as RRULE parts: "none", NoDate, Undef
\* and NoNums stand for omitted fields
NoRule ==
  [present |-> FALSE, freq |-> "none", interval |-> NoDate, count |-> NoDate,
   until |-> NoDate, byday |-> Undef, bymonthday |-> NoNums, bymonth |-> NoNums]

\* a sub-component of VCALENDAR
Comp(name, uid, summary, dtstart, dtend, rrule, valarms) ==
  [name |-> name, uid |-> uid, summary |-> summary, description |-> Undef,
   location |-> Undef, status |-> Undef, dtstart |-> dtstart, dtend |-> dtend,
   due |-> NoTime, completed |-> NoTime, rrule |-> rrule, valarms |-> valarms]

\* icalTime.toJSDate(): UTC values are instants; dates and values without the
\* UTC marker are read in the zone of the runtime (no zone is ever registered
\* for a TZID), tzOffset being that zone's offset east of UTC
toJSDate(t, tzOffset) ==
  IF t.isDate THEN t.value * Day - tzOffset
  ELSE IF t.utc THEN t.value * Second
  ELSE t.value * Second - tzOffset

\* icalEvent.endDate: DTEND, or else the start (a day later for a date)
endDateOf(vevent) ==
  IF vevent.dtend.present THEN vevent.dtend
  ELSE IF vevent.dtstart.isDate
       THEN [vevent.dtstart EXCEPT !.value = @ + 1]
       ELSE vevent.dtstart

\* parseRecurrence(recur): recur.interval is 1 when the rule has no INTERVAL
parseRecurrence(recur) ==
  [present |-> TRUE,
   freq |-> IF recur.freq \in {"DAILY", "WEEKLY", "MONTHLY", "YEARLY"}
            THEN recur.freq ELSE "none",
   interval |-> IF recur.interval = NoDate THEN 1 ELSE recur.interval,
   count |-> IF recur.count # NoDate /\ recur.count # 0 THEN recur.count ELSE NoDate,
   until |-> IF recur.until # NoDate THEN recur.until * Second ELSE NoDate,
   byday |-> recur.byday, bymonthday |-> recur.bymonthday, bymonth |-> recur.bymonth]

\* the alarm one VALARM decodes to (none or one)
alarmOf(valarm) ==
  IF ~Truthy(valarm.action) \/ ~Truthy(valarm.trigger) THEN <<>>
  ELSE CASE valarm.action = <<"DISPLAY">> ->
              <<[action |-> valarm.action, trigger |-> valarm.trigger,
                 description |-> valarm.description, summary |-> Undef,
                 attendees |-> <<>>]>>
         [] valarm.action = <<"EMAIL">> ->
              <<[action |-> valarm.action, trigger |-> valarm.trigger,
                 description |-> valarm.description, summary |-> valarm.summary,
                 attendees |-> valarm.attendees]>>
         [] valarm.action = <<"AUDIO">> ->
              <<[action |-> valarm.action, trigger |-> valarm.trigger,
                 description |-> Undef, summary |-> Undef, attendees |-> <<>>]>>
         [] OTHER -> <<>>

RECURSIVE alarmsOf(_)
alarmsOf(valarms) ==
  IF valarms = <<>> THEN <<>> ELSE alarmOf(Head(valarms)) \o alarmsOf(Tail(valarms))

\* x || undefined, x || "Untitled Event"
orElse(x, default) == IF Truthy(x) THEN x ELSE default

\* the Event parseEvents pushes for one VEVENT
eventOf(vevent, prop, href, tzOffset) ==
  LET isWholeDay == vevent.dtstart.isDate
      startDate == toJSDate(vevent.dtstart, tzOffset)
      endDate == toJSDate(endDateOf(vevent), tzOffset)
      \* isWholeDay ? new Date(endDate.getTime()) : endDate
      adjustedEnd == IF isWholeDay THEN endDate + 0 ELSE endDate
  IN [uid |-> vevent.uid,
      summary |-> orElse(vevent.summary, <<"Untitled Event">>),
      start |-> startDate,
      end |-> adjustedEnd,
      due |-> NoDate,
      completed |-> NoDate,
      status |-> Undef,
      description |-> orElse(vevent.description, Undef),
      location |-> orElse(vevent.location, Undef),
      etag |-> orElse(prop.getetag, Empty),
      href |-> href,
      wholeDay |-> isWholeDay,
      recurrenceRule |-> IF vevent.rrule.present THEN parseRecurrence(vevent.rrule)
                         ELSE NoRule,
      startTzid |-> vevent.dtstart.tzid,
      endTzid |-> vevent.dtend.tzid,
      alarms |-> alarmsOf(vevent.valarms)]

\* the Todo parseTodos pushes for one VTODO
todoOf(vtodo, prop, href, tzOffset) ==
  [uid |-> vtodo.uid,
   summary |-> orElse(vtodo.summary, <<"Untitled Todo">>),
   start |-> IF vtodo.dtstart.present THEN toJSDate(vtodo.dtstart, tzOffset) ELSE NoDate,
   end |-> NoDate,
   due |-> IF vtodo.due.present THEN toJSDate(vtodo.due, tzOffset) ELSE NoDate,
   completed |-> IF vtodo.completed.present THEN toJSDate(vtodo.completed, tzOffset)
                 ELSE NoDate,
   status |-> vtodo.status,
   description |-> vtodo.description,
   location |-> vtodo.location,
   etag |-> orElse(prop.getetag, Empty),
   href |-> href,
   wholeDay |-> FALSE,
   recurrenceRule |-> NoRule,
   startTzid |-> Undef,
   endTzid |-> Undef,
   alarms |-> alarmsOf(vtodo.valarms)]

\* a mutation of getAllSubcomponents: getFirstSubcomponent, as a list
getAllSubcomponents_First(comps, name) ==
  LET all == SelectSeq(comps, LAMBDA c : c.name = name)
  IN IF all = <<>> THEN <<>> ELSE <<Head(all)>>

\* vcalendar.getAllSubcomponents(name)
getAllSubcomponents(comps, name) == SelectSeq(comps, LAMBDA c : c.name = name)

\* reading icalEvent.startDate.isDate throws when the VEVENT has no DTSTART
throwsOn(comp, name) == name = "vevent" /\ ~comp.dtstart.present

\* the loop over the sub-components of one document, inside try: the items
\* pushed until the loop ends or something throws
RECURSIVE itemsOfComps(_, _, _, _, _)
itemsOfComps(comps, name, prop, href, tzOffset) ==
  IF comps = <<>> THEN <<>>
  ELSE IF throwsOn(Head(comps), name) THEN <<>>
  ELSE <<IF name = "vevent" THEN eventOf(Head(comps), prop, href, tzOffset)
         ELSE todoOf(Head(comps), prop, href, tzOffset)>>
       \o itemsOfComps(Tail(comps), name, prop, href, tzOffset)

\* obj["propstat"]?.["prop"]: a property of the single propstat object;
\* undefined when propstat is absent or an array
propOf(obj) ==
  IF obj.propstat.shape = "one" THEN obj.propstat.v[1].prop
  ELSE [present |-> FALSE, getetag |-> Undef,
        calendarData |-> [kind |-> "none", comps |-> <<>>]]

\* the body of the loop over response entries: the items one entry adds
itemsOfEntry(obj, name, tzOffset) ==
  LET data == propOf(obj)
  IN IF ~data.present THEN <<>>                         \* continue
     ELSE IF data.calendarData.kind = "none" THEN <<>>  \* continue
     ELSE IF data.calendarData.kind = "garbage" THEN <<>>   \* ICAL.parse throws, caught
     ELSE itemsOfComps(getAllSubcomponents(data.calendarData.comps, name),
                       name, data, obj.href, tzOffset)

\* a mutation of the loop: the first entry without a usable document ends it
RECURSIVE itemsFrom_StopAtCorrupt(_, _, _)
itemsFrom_StopAtCorrupt(responses, name, tzOffset) ==
  IF responses = <<>> THEN <<>>
  ELSE IF propOf(Head(responses)).calendarData.kind # "doc" THEN <<>>
  ELSE itemsOfEntry(Head(responses), name, tzOffset)
       \o itemsFrom_StopAtCorrupt(Tail(responses), name, tzOffset)

\* for (const obj of response) { ... }
RECURSIVE itemsFrom(_, _, _)
itemsFrom(responses, name, tzOffset) ==
  IF responses = <<>> THEN <<>>
  ELSE itemsOfEntry(Head(responses), name, tzOffset)
       \o itemsFrom(Tail(responses), name, tzOffset)

\* parseEvents(responseData) / parseTodos(responseData): response is
\* normalised to a list ("if (!Array.isArray(response)) response = [response]")
parseEvents(jsonData, tzOffset) == itemsFrom(toArray(jsonData.response), "vevent", tzOffset)
parseTodos(jsonData, tzOffset) == itemsFrom(toArray(jsonData.response), "vtodo", tzOffset)

\* ---- the multi-status bodies decoded
MaxComps == 3       \* most sub-components in one calendar document

PlainEvent(uid) ==
  Comp("vevent", <<uid>>, <<"Standup">>, UtcValue(10, Undef), UtcValue(20, Undef),
       NoRule, <<>>)
BrokenEvent(uid) ==
  Comp("vevent", <<uid>>, <<"Standup">>, NoTime, NoTime, NoRule, <<>>)
PlainTodo(uid) ==
  [Comp("vtodo", <<uid>>, <<"Pay">>, NoTime, NoTime, NoRule, <<>>)
     EXCEPT !.due = LocalValue(30, <<"Europe/Berlin">>)]
Timezone == Comp("vtimezone", Undef, Undef, NoTime, NoTime, NoRule, <<>>)

\* the sub-components a document may hold, by position
DocComps(n) ==
  {c \in [1..n -> {"vevent", "broken", "vtodo", "vtimezone"}] : TRUE}

CompAt(kind, i) ==
  CASE kind = "vevent" -> PlainEvent("e" \o ToString(i))
    [] kind = "broken" -> BrokenEvent("x" \o ToString(i))
    [] kind = "vtodo" -> PlainTodo("t" \o ToString(i))
    [] OTHER -> Timezone

Documents ==
  {[kind |-> "none", comps |-> <<>>], [kind |-> "garbage", comps |-> <<>>]}
  \cup UNION {{[kind |-> "doc", comps |-> [i \in 1..n |-> CompAt(c[i], i)]] :
                 c \in DocComps(n)} : n \in 0..MaxComps}

ItemEntry(i, doc) ==
  [href |-> <<"/cal", "/", ToString(i), ".ics">>,
   propstat |-> XmlOne([status |-> StatusOk,
                        prop |-> [present |-> TRUE, getetag |-> StrongTag(i),
                                  calendarData |-> doc]])]

NoPropEntry(i) ==
  [href |-> <<"/cal", "/", ToString(i), ".ics">>, propstat |-> XmlNone]

\* the second entry of a body of two
SecondDocs ==
  {[kind |-> "garbage", comps |-> <<>>],
   [kind |-> "doc", comps |-> <<PlainEvent("e9"), PlainTodo("t9")>>]}

Bodies207 ==
  {[response |-> XmlNone]}
  \cup {[response |-> XmlOne(ItemEntry(1, d))] : d \in Documents}
  \cup {[response |-> XmlOne(NoPropEntry(1))]}
  \cup {[response |-> XmlMany(<<ItemEntry(1, d), ItemEntry(2, e)>>)] :
          d \in Documents, e \in SecondDocs}
  \cup {[response |-> XmlMany(<<NoPropEntry(1), ItemEntry(2, e)>>)] : e \in SecondDocs}

InitDecode ==
  /\ AtRest
  /\ fnArgs \in {[fn |-> f, data |-> d, tzOffset |-> 0] :
                   f \in {"parseEvents", "parseTodos"}, d \in Bodies207}
  /\ fnRes = <<>>

callParseEvents ==
  /\ fnRes = <<>>
  /\ fnArgs.fn = "parseEvents"
  /\ fnRes' = <<parseEvents(fnArgs.data, fnArgs.tzOffset)>>
  /\ UNCHANGED <<serverVars, clientVars, fnArgs>>

callParseTodos ==
  /\ fnRes = <<>>
  /\ fnArgs.fn = "parseTodos"
  /\ fnRes' = <<parseTodos(fnArgs.data, fnArgs.tzOffset)>>
  /\ UNCHANGED <<serverVars, clientVars, fnArgs>>

NextDecode == callParseEvents \/ callParseTodos

SpecDecode == InitDecode /\ [][NextDecode]_vars

\* ---- C15
Decoded == fnRes # <<>> /\ fnArgs.fn \in {"parseEvents", "parseTodos"}
Wanted == IF fnArgs.fn = "parseEvents" THEN "vevent" ELSE "vtodo"
Entries == fnArgs.data.response.v
DocOf(obj) ==
  IF obj.propstat.shape = "none" THEN [kind |-> "none", comps |-> <<>>]
  ELSE obj.propstat.v[1].prop.calendarData

\* every wanted sub-component of the document can be read
Sound(obj) ==
  /\ DocOf(obj).kind = "doc"
  /\ \A i \in DOMAIN DocOf(obj).comps :
       LET c == DocOf(obj).comps[i]
       IN (c.name = "vevent" /\ Wanted = "vevent") => c.dtstart.present

\* the (uid, href, etag) of every wanted sub-component, in document order
RefsOfDoc(obj) ==
  LET wanted == SelectSeq(DocOf(obj).comps, LAMBDA c : c.name = Wanted)
  IN [i \in DOMAIN wanted |->
        [uid |-> wanted[i].uid, href |-> obj.href,
         etag |-> obj.propstat.v[1].prop.getetag]]

RECURSIVE RefsOfAll(_)
RefsOfAll(entries) ==
  IF entries = <<>> THEN <<>>
  ELSE (IF Sound(Head(entries)) THEN RefsOfDoc(Head(entries)) ELSE <<>>)
       \o RefsOfAll(Tail(entries))

RefsOfItems(its) ==
  [i \in DOMAIN its |-> [uid |-> its[i].uid, href |-> its[i].href, etag |-> its[i].etag]]

Corrupt(obj) == DocOf(obj).kind \in {"garbage", "none"}

isoDate(date) == date \div Day

\* ICAL.Time.fromJSDate(date, true): the UTC time, to whole seconds
fromJSDate(date) == date \div Second

\* DTSTART / DTEND of the encoded event
encodeBound(wholeDay, date, tzid) ==
  IF wholeDay = "true" THEN DateValue(isoDate(date))
  ELSE IF Truthy(tzid)
       THEN UtcValue(fromJSDate(date), tzid)      \* the UTC value, TZID set on it
       ELSE UtcValue(fromJSDate(date), Undef)

\* rruleProps: only the fields that are set (and not 0)
encodeRule(rule) ==
  IF ~rule.present THEN NoRule
  ELSE [present |-> TRUE,
        freq |-> rule.freq,
        interval |-> IF rule.interval # NoDate /\ rule.interval # 0
                     THEN rule.interval ELSE NoDate,
        count |-> IF rule.count # NoDate /\ rule.count # 0 THEN rule.count ELSE NoDate,
        until |-> IF rule.until # NoDate THEN fromJSDate(rule.until) ELSE NoDate,
        byday |-> rule.byday, bymonthday |-> rule.bymonthday, bymonth |-> rule.bymonth]

\* the VALARM of one alarm
encodeAlarm(alarm) ==
  [trigger |-> alarm.trigger,
   action |-> alarm.action,
   description |->
     IF alarm.action \in {<<"DISPLAY">>, <<"EMAIL">>} /\ Truthy(alarm.description)
     THEN alarm.description ELSE Undef,
   summary |-> IF alarm.action = <<"EMAIL">> /\ Truthy(alarm.summary)
               THEN alarm.summary ELSE Undef,
   attendees |-> IF alarm.action = <<"EMAIL">> THEN alarm.attendees ELSE <<>>]

\* this.buildICSData(event, uid): VCALENDAR (version, prodid) holding one VEVENT
buildICSData(event, uid) ==
  [kind |-> "doc",
   comps |->
     <<[Comp("vevent", uid, event.summary,
             encodeBound(event.wholeDay, event.start, event.startTzid),
             encodeBound(event.wholeDay, event.end, event.endTzid),
             encodeRule(event.recurrenceRule),
             [i \in DOMAIN event.alarms |-> encodeAlarm(event.alarms[i])])
        EXCEPT !.description = orElse(event.description, Empty),
               !.location = orElse(event.location, Empty)]>>]

\* ---- the events encoded
MaxAlarms == 2      \* most alarms of one event

Berlin == <<"Europe/Berlin">>
Day10 == 10 * Day                   \* a UTC midnight

\* offsets east of UTC of the zone the program runs in
TzOffsets == {0, 2 * Hour, 0 - 5 * Hour}

Draft(summary, start, end, wholeDay, startTzid, endTzid, rule, alarms) ==
  [uid |-> UidU, summary |-> summary, start |-> start, end |-> end,
   description |-> Undef, location |-> Undef, wholeDay |-> wholeDay,
   startTzid |-> startTzid, endTzid |-> endTzid, recurrenceRule |-> rule,
   alarms |-> alarms]

\* whole-day and timed events, at UTC midnight, at local midnight of the
\* zones east and west of UTC, and at a time of day with milliseconds
DatedDrafts ==
  {Draft(<<"Standup">>, st, st + len, w, tz[1], tz[2], NoRule, <<>>) :
     st \in {Day10, Day10 - 2 * Hour, Day10 + 5 * Hour, Day10 + 13 * Hour + 1500},
     len \in {Hour, Day},
     w \in {"undefined", "true", "false"},
     tz \in {<<Undef, Undef>>, <<Berlin, Berlin>>, <<Berlin, Undef>>}}

Rule(freq, interval, count, until, byday, bymonthday) ==
  [present |-> TRUE, freq |-> freq, interval |-> interval, count |-> count,
   until |-> until, byday |-> byday, bymonthday |-> bymonthday, bymonth |-> NoNums]

Rules ==
  {Rule(f, i, c, NoDate, d, NoNums) :
     f \in {"DAILY", "WEEKLY"}, i \in {NoDate, 1, 2}, c \in {NoDate, 5},
     d \in {Undef, <<"MO", "TU">>}}
  \cup {Rule("MONTHLY", 1, NoDate, Day10 + 1500, Undef, <<1, 15>>)}

RuledDrafts ==
  {Draft(s, Day10 + Hour, Day10 + 2 * Hour, "undefined", Undef, Undef, r, <<>>) :
     s \in {<<"Standup">>, Empty}, r \in Rules}

Alarms ==
  {[action |-> <<"DISPLAY">>, trigger |-> <<"-PT30M">>, description |-> <<"Popup">>,
    summary |-> Undef, attendees |-> <<>>],
   [action |-> <<"DISPLAY">>, trigger |-> <<"-PT30M">>, description |-> Undef,
    summary |-> Undef, attendees |-> <<>>],
   [action |-> <<"AUDIO">>, trigger |-> <<"-PT15M">>, description |-> Undef,
    summary |-> Undef, attendees |-> <<>>],
   [action |-> <<"EMAIL">>, trigger |-> <<"-PT10M">>, description |-> <<"Soon">>,
    summary |-> <<"Reminder">>, attendees |-> <<"mailto:a">>],
   [action |-> <<"EMAIL">>, trigger |-> <<"-PT10M">>, description |-> Undef,
    summary |-> Undef, attendees |-> <<"mailto:a", "mailto:b">>],
   [action |-> <<"EMAIL">>, trigger |-> <<"-PT10M">>, description |-> Undef,
    summary |-> Undef, attendees |-> <<>>]}

AlarmLists == UNION {[1..n -> Alarms] : n \in 0..MaxAlarms}

AlarmedDrafts ==
  {Draft(<<"Standup">>, Day10 + Hour, Day10 + 2 * Hour, "false", Undef, Undef, NoRule, a) :
     a \in AlarmLists}

InitCodec ==
  /\ AtRest
  /\ fnArgs \in {[fn |-> "createEvent", event |-> e, tzOffset |-> z] :
                   e \in DatedDrafts \cup RuledDrafts \cup AlarmedDrafts, z \in TzOffsets}
  /\ fnRes = <<>>

\* createEvent: the body buildICSData(data, uid) of the PUT
callBuildICSData ==
  /\ fnRes = <<>>
  /\ fnArgs.fn = "createEvent"
  /\ fnRes' = <<buildICSData(fnArgs.event, fnArgs.event.uid)>>
  /\ UNCHANGED <<serverVars, clientVars, fnArgs>>

\* getEvents: the stored document comes back in a multi-status body and is
\* decoded
callDecode ==
  /\ Len(fnRes) = 1
  /\ fnArgs.fn = "createEvent"
  /\ fnRes' = <<fnRes[1],
                parseEvents([response |-> XmlOne(ItemEntry(1, fnRes[1]))],
                            fnArgs.tzOffset)>>
  /\ UNCHANGED <<serverVars, clientVars, fnArgs>>

NextCodec == callBuildICSData \/ callDecode

SpecCodec == InitCodec /\ [][NextCodec]_vars

\* ---- C17
Encoded == Len(fnRes) >= 1 /\ fnArgs.fn = "createEvent"
RoundTripped == Len(fnRes) = 2 /\ fnArgs.fn = "createEvent" /\ Len(fnRes[2]) = 1
Given == fnArgs.event
Back == fnRes[2][1]
Written == fnRes[1].comps[1]

\* the same set of recurrence fields with the same values (until to seconds)
SameRule(in, out) ==
  /\ out.present = in.present
  /\ out.freq = in.freq
  /\ out.interval = in.interval
  /\ out.count = in.count
  /\ (in.until = NoDate) = (out.until = NoDate)
  /\ in.until # NoDate => out.until \div Second = in.until \div Second
  /\ out.byday = in.byday
  /\ out.bymonthday = in.bymonthday
  /\ out.bymonth = in.bymonth

\* C17: decoding the encoded event gives back uid, summary, start and end (of
\* a timed event, to whole seconds), the wholeDay flag, and a recurrence rule
\* with exactly the fields and values given.
C17_RoundTrip ==
  RoundTripped =>
    /\ Back.uid = Given.uid
    /\ Back.summary = Given.summary
    /\ Given.wholeDay # "true" =>
         /\ Back.start \div Second = Given.start \div Second
         /\ Back.end \div Second = Given.end \div Second
    /\ Back.wholeDay = (Given.wholeDay = "true")
    /\ SameRule(Given.recurrenceRule, Back.recurrenceRule)

\* what the round trip does keep: everything but an empty summary, and every
\* recurrence field but an omitted interval, which comes back as 1
C17_RoundTripKept ==
  RoundTripped =>
    /\ Back.uid = Given.uid
    /\ Back.summary = (IF Given.summary = Empty THEN <<"Untitled Event">> ELSE Given.summary)
    /\ Given.wholeDay # "true" =>
         /\ Back.start \div Second = Given.start \div Second
         /\ Back.end \div Second = Given.end \div Second
    /\ Back.wholeDay = (Given.wholeDay = "true")
    /\ SameRule([Given.recurrenceRule EXCEPT
                   !.interval = IF Given.recurrenceRule.present /\ @ = NoDate THEN 1 ELSE @],
                Back.recurrenceRule)

\* { freq: "WEEKLY", count: 5 } came back with interval 1
C17_IntervalAppears ==
  /\ RoundTripped
  /\ Given.recurrenceRule.present
  /\ Given.recurrenceRule.interval = NoDate
  /\ Back.recurrenceRule.interval = 1

\* ---- C18
\* the calendar date an instant falls on in the zone the program runs in
LocalDate(date) == (date + fnArgs.tzOffset) \div Day

\* C18: a wholeDay event is written with date-only start and end, decodes
\* with wholeDay true and with the end of the document unchanged (no day
\* subtracted), and its decoded start and end fall on the dates given.
C18_WholeDay ==
  (RoundTripped /\ Given.wholeDay = "true") =>
    /\ Written.dtstart.isDate /\ Written.dtend.isDate
    /\ Back.wholeDay
    /\ Back.end = toJSDate(Written.dtend, fnArgs.tzOffset)
    /\ LocalDate(Back.start) = LocalDate(Given.start)
    /\ LocalDate(Back.end) = LocalDate(Given.end)

\* what holds in every zone: the dates written are the UTC dates of the
\* instants given, and they come back as local midnights of those dates
C18_UtcDates ==
  (RoundTripped /\ Given.wholeDay = "true") =>
    /\ Written.dtstart = DateValue(Given.start \div Day)
    /\ Written.dtend = DateValue(Given.end \div Day)
    /\ Back.wholeDay
    /\ Back.end = toJSDate(Written.dtend, fnArgs.tzOffset)
    /\ LocalDate(Back.start) = Given.start \div Day
    /\ LocalDate(Back.end) = Given.end \div Day
    /\ (Back.start + fnArgs.tzOffset) % Day = 0

\* two hours east of UTC, a whole day given from local midnight came back a
\* day early
C18_DayEarly ==
  /\ RoundTripped /\ Given.wholeDay = "true"
  /\ fnArgs.tzOffset = 2 * Hour
  /\ (Given.start + fnArgs.tzOffset) % Day = 0
  /\ LocalDate(Back.start) = LocalDate(Given.start) - 1

\* ---- C19
WrittenRight(wholeDay, tzid, bound) ==
  /\ bound.present
  /\ wholeDay = "true" => bound.isDate
  /\ (wholeDay # "true" /\ ~Truthy(tzid)) =>
       (~bound.isDate /\ bound.utc /\ bound.tzid = Undef)
  /\ (wholeDay # "true" /\ Truthy(tzid)) =>
       (~bound.isDate /\ ~bound.utc /\ bound.tzid = tzid)

\* C19: a wholeDay event is written with date-only bounds; a timed bound
\* without timezone identifier as a UTC timestamp; a timed bound with
\* startTzid / endTzid as a wall-clock value without UTC marker, carrying
\* the identifier as TZID; the document holds no VTIMEZONE.
C19_DateEncoding ==
  Encoded =>
    /\ WrittenRight(Given.wholeDay, Given.startTzid, Written.dtstart)
    /\ WrittenRight(Given.wholeDay, Given.endTzid, Written.dtend)
    /\ \A i \in DOMAIN fnRes[1].comps : fnRes[1].comps[i].name # "vtimezone"

\* what the encoder does: as C19, but a bound with an identifier is the UTC
\* timestamp, UTC marker included, with TZID added
C19_UtcWithTzid ==
  Encoded =>
    /\ \A b \in {<<Given.startTzid, Written.dtstart, Given.start>>,
                 <<Given.endTzid, Written.dtend, Given.end>>} :
         /\ b[2].present
         /\ Given.wholeDay = "true" => b[2] = DateValue(b[3] \div Day)
         /\ Given.wholeDay # "true" =>
              b[2] = UtcValue(b[3] \div Second, IF Truthy(b[1]) THEN b[1] ELSE Undef)
    /\ \A i \in DOMAIN fnRes[1].comps : fnRes[1].comps[i].name # "vtimezone"

\* ---- C20
\* C20: the written event has one VALARM per alarm given, in the order
\* given, each with trigger and action, and every VALARM with action EMAIL
\* has at least one attendee.
C20_AlarmEncoding ==
  Encoded =>
    /\ Len(Written.valarms) = Len(Given.alarms)
    /\ \A i \in DOMAIN Written.valarms :
         /\ Written.valarms[i].trigger = Given.alarms[i].trigger
         /\ Written.valarms[i].action = Given.alarms[i].action
         /\ Truthy(Written.valarms[i].trigger) /\ Truthy(Written.valarms[i].action)
         /\ Written.valarms[i].action = <<"EMAIL">> => Len(Written.valarms[i].attendees) >= 1

\* what the encoder does: one ATTENDEE per attendee given, none for none
C20_AlarmsAsGiven ==
  Encoded =>
    /\ Len(Written.valarms) = Len(Given.alarms)
    /\ \A i \in DOMAIN Written.valarms :
         /\ Written.valarms[i].trigger = Given.alarms[i].trigger
         /\ Written.valarms[i].action = Given.alarms[i].action
         /\ Truthy(Written.valarms[i].trigger) /\ Truthy(Written.valarms[i].action)
         /\ Written.valarms[i].action = <<"EMAIL">> =>
              Written.valarms[i].attendees = Given.alarms[i].attendees

\* ============================================================ one call, as a unit
\* ---- C24
\* the answer to request i of a sync call was a failure
SyncFailedAt(c, i) ==
  /\ c.reqs[i].status # 0
  /\ IF i = 1 THEN c.reqs[i].status # 207 ELSE c.reqs[i].status \notin 200..299

\* C24: one sync call issues one change-tag query and then at most one
\* reference query that asks for getetag only (never calendar-data); it never
\* repeats a request and never fetches item bodies; when either request
\* fails, the call rejects at once and returns no result.
C24_SyncRequests ==
  \A p \in Procs :
    LET c == call[p] IN
    c.op = "sync" =>
      /\ Len(c.reqs) \in 1..2
      /\ c.reqs[1].method = "PROPFIND" /\ c.reqs[1].props = <<"getctag">>
      /\ c.reqs[1].url = c.urlArg
      /\ Len(c.reqs) = 2 =>
           /\ c.reqs[1].status = 207
           /\ c.reqs[2].method = "REPORT" /\ c.reqs[2].props = <<"getetag">>
           /\ c.reqs[2].url = c.urlArg
           /\ c.reqs[2].kind = Component(c.itemType)
      /\ \A i \in DOMAIN c.reqs :
           /\ "calendar-data" \notin SetOf(c.reqs[i].props)
           /\ SyncFailedAt(c, i) =>
                /\ i = Len(c.reqs)
                /\ c.pc = "done" /\ c.outcome = "rejected"
      /\ c.outcome = "rejected" =>
           /\ \E i \in DOMAIN c.reqs : SyncFailedAt(c, i)
           /\ c.changed = FALSE /\ c.newItems = <<>>
           /\ c.updatedItems = <<>> /\ c.deletedItems = <<>>

\* a todo sync whose reference query was answered 500 has rejected after two
\* requests
C24_Witness ==
  \E p \in Procs :
    /\ call[p].op = "sync" /\ call[p].itemType = "todo"
    /\ Len(call[p].reqs) = 2
    /\ call[p].reqs[2].status = 500
    /\ call[p].outcome = "rejected"

\* ---- C25
\* the server carried out the PUT r (PutOutcomes stores exactly when it
\* answers with a success status)
Carried(r) == r.method = "PUT" /\ r.status \in 200..299

\* C25: whenever createEvent / createTodo / updateEvent / updateTodo rejects,
\* the call has left the server's items as they were: its PUT was not carried
\* out, and a rejected create that generated its uid has left no item under
\* the href it derived.
C25_Unit ==
  \A p \in Procs :
    LET c == call[p] IN
    (c.op \in {"createItem", "updateItem"} /\ c.outcome = "rejected") =>
      /\ \A i \in DOMAIN c.reqs : ~Carried(c.reqs[i])
      /\ (c.op = "createItem" /\ c.uid = Undef /\ c.href # Empty) =>
           c.href \notin DOMAIN items

\* a create that generated its uid rejected although its item is stored
C25_StoredThenRejected ==
  \E p \in Procs :
    /\ call[p].op = "createItem" /\ call[p].uid = Undef
    /\ call[p].outcome = "rejected" /\ call[p].error = "Failed"
    /\ call[p].reqs[1].status = 201
    /\ call[p].reqs[2].status = 500
    /\ call[p].href \in DOMAIN items

\* ---- C30
\* the base path is a prefix of path that ends at a segment boundary
WholeSegmentPrefix(basePath, path) ==
  LET B == BaseSegment(basePath)
  IN /\ basePath # Slash
     /\ startsWith(path, B)
     /\ (Len(path) = Len(B) \/ path[Len(B) + 1] = "/")

\* C30: resolveUrl removes the base path from a returned path only when the
\* base path is a whole-segment prefix of it; a returned path whose first
\* segment merely starts with the same characters is stored unchanged.
C30_SegmentBoundary ==
  Creating =>
    LET c == fnRes[1]
        P == fnArgs.basePath
    IN /\ (c.userPrincipal # Null /\ ~WholeSegmentPrefix(P, c.reqs[1].href)) =>
            c.userPrincipal = c.reqs[1].href
       /\ (c.calendarHome # Null /\ ~WholeSegmentPrefix(P, c.reqs[2].href)) =>
            c.calendarHome = c.reqs[2].href

\* base path /dav, the server returns /davical/u/ and /ical/u/ is stored
C30_CutInsideSegment ==
  /\ Creating
  /\ fnArgs.basePath = <<"/", "dav">>
  /\ fnRes[1].reqs[1].href = <<"/", "dav", "ical", "/", "u", "/">>
  /\ fnRes[1].userPrincipal = <<"/", "ical", "/", "u", "/">>

\* ============================================================ the sync cycle
\* One caller (caller 1) keeps a change-tag and a reference list for the
\* event calendar, passes them to every syncChanges call and takes over what
\* each call returns, as the README's "Sync Local Calendar" example does;
\* other clients write to the calendar meanwhile.  fnRes holds the caller's
\* store: ctag and refs, the number of calls whose result it has taken over,
\* and whether it took over a write's change-tag since its last sync.
LocalStore(ctag, refs) == [ctag |-> ctag, refs |-> refs, adopted |-> 0, wrote |-> FALSE]

\* a new caller, and one whose last sync saw the calendar as it is at the start
FreshStore == LocalStore(Empty, <<>>)
SyncedStore == LocalStore(CtagText(1), <<[href |-> HrefU, etag |-> StrongTag(1)]>>)

InSeq(x, seq) == \E i \in DOMAIN seq : seq[i] = x

\* updateLocalDatabase(newEvents, result.deletedEvents): the deleted hrefs are
\* dropped, the new and updated ones stored with the entity-tags fetched
applyDiff(localRefs, fetchedHrefs, deletedHrefs, remoteRefs) ==
  SelectSeq(localRefs, LAMBDA l : ~InSeq(l.href, deletedHrefs) /\ ~InSeq(l.href, fetchedHrefs))
    \o SelectSeq(remoteRefs, LAMBDA r : InSeq(r.href, fetchedHrefs))

\* the written item's reference is added to the local list, or replaces its entry
putRef(localRefs, href, etag) ==
  SelectSeq(localRefs, LAMBDA l : l.href # href) \o <<[href |-> href, etag |-> etag]>>

InitLoop ==
  /\ AtRest
  /\ fnArgs \in {[fn |-> "cycle", start |-> s] : s \in {"fresh", "synced"}}
  /\ fnRes = <<IF fnArgs.start = "fresh" THEN FreshStore ELSE SyncedStore>>

\* the previous call's result has been taken over
Settled == fnRes[1].adopted = nCalls

\* client.syncChanges(calendar.url, lastCtag, localEventRefs)
cycleSync ==
  /\ Settled
  /\ syncChanges(1, CalUrlOf("event"), fnRes[1].ctag, fnRes[1].refs)

\* client.createEvent(calendar.url, event), the uid left to the library
cycleCreate ==
  /\ Settled
  /\ createItem(1, "event", CalUrlOf("event"), Undef)

\* client.updateEvent(calendar.url, event) for the item the caller holds
cycleUpdate ==
  /\ Settled
  /\ hasHref(fnRes[1].refs, HrefU)
  /\ updateItem(1, "event", CalUrlOf("event"), UidU, HrefU,
                mapGet(fnRes[1].refs, HrefU), 1)

\* the caller takes over the result of the call that has returned:
\* saveNewCtag(result.newCtag) and, after a sync that reported changes,
\* updateLocalDatabase; after a write, the written reference and newCtag
adopt ==
  /\ call[1].pc = "done"
  /\ fnRes[1].adopted < nCalls
  /\ LET c == call[1]
         s == [fnRes[1] EXCEPT !.adopted = nCalls]
     IN fnRes' =
          <<CASE c.outcome # "resolved" -> s
              [] c.op = "sync" /\ c.changed ->
                   [s EXCEPT !.ctag = c.newCtag, !.wrote = FALSE,
                             !.refs = applyDiff(c.localRefs,
                                                c.newItems \o c.updatedItems,
                                                c.deletedItems, c.remoteRefs)]
              [] c.op = "sync" /\ ~c.changed ->
                   [s EXCEPT !.ctag = c.newCtag, !.wrote = FALSE]
              [] c.op \in {"createItem", "updateItem"} ->
                   [s EXCEPT !.ctag = c.newCtag, !.wrote = TRUE,
                             !.refs = putRef(s.refs, c.rHref, c.rEtag)]
              [] OTHER -> s>>
  /\ UNCHANGED <<serverVars, clientVars, fnArgs>>

NextLoop ==
  \/ cycleSync
  \/ syncCtag(1)
  \/ syncRefs(1)
  \/ cycleCreate
  \/ createItemPut(1)
  \/ createItemCtag(1)
  \/ cycleUpdate
  \/ updateItemPut(1)
  \/ updateItemCtag(1)
  \/ adopt
  \/ otherClient

SpecLoop == InitLoop /\ [][NextLoop]_vars

\* ---- C26
\* caller 1's sync call returns a result in this step
SyncReturns ==
  /\ call[1].pc # "done"
  /\ call'[1].pc = "done" /\ call'[1].op = "sync" /\ call'[1].outcome = "resolved"

\* the caller's references and the server's agree when the step ends
LocalIsRemote == SetOf(call'[1].localRefs) = RemoteRefSet("VEVENT")'

\* C26: for a caller that starts with an empty change-tag and no references,
\* stores the newCtag of every sync result and applies every reported diff,
\* whenever a sync returns changed = FALSE the caller's references are the
\* server's references of that component type.
C26_SyncSound ==
  [][(fnArgs.start = "fresh" /\ ~fnRes[1].wrote /\ SyncReturns /\ ~call'[1].changed)
       => LocalIsRemote]_vars

\* the same for a caller whose store was taken from the server by an earlier
\* sync: here the short-circuit is sound
C26_SoundFromSynced ==
  [][(fnArgs.start = "synced" /\ ~fnRes[1].wrote /\ SyncReturns /\ ~call'[1].changed)
       => LocalIsRemote]_vars

\* the new caller's first sync returned changed = FALSE while the calendar
\* holds an event the caller does not have
C26_FirstSyncBlind ==
  /\ fnArgs.start = "fresh"
  /\ call[1].op = "sync" /\ call[1].pc = "done" /\ call[1].outcome = "resolved"
  /\ call[1].ctag = Empty /\ call[1].localRefs = <<>>
  /\ ~call[1].changed
  /\ srvCtag = 1 /\ HrefU \in DOMAIN items

\* ---- C27
SyncDone(c) == c.op = "sync" /\ c.pc = "done" /\ c.outcome = "resolved"

\* the sync call c follows a sync of the same caller that reported changes,
\* and was given the newCtag that sync returned
FollowsChanged(c) ==
  /\ SyncDone(c)
  /\ c.prev.valid /\ c.prev.changed
  /\ c.ctag = c.prev.fetched

\* C27: after a sync that returned changed = TRUE, dropping deletedEvents from
\* the local references and storing the remote entity-tags for newEvents and
\* updatedEvents yields the reference set that sync observed; a following sync
\* given the returned newCtag and that local set, the server's change-tag
\* still being the one the first sync fetched, returns changed = FALSE.
C27_Converges ==
  LET c == call[1] IN
  /\ (SyncDone(c) /\ c.changed) =>
       SetOf(applyDiff(c.localRefs, c.newItems \o c.updatedItems,
                       c.deletedItems, c.remoteRefs)) = SetOf(c.remoteRefs)
  /\ (FollowsChanged(c) /\ Fetched(c) = c.prev.fetched) => ~c.changed

\* a sync reported the deletion of the caller's event; the next sync, given
\* the new tag and the emptied local set, returned changed = FALSE
C27_Witness ==
  LET c == call[1] IN
  /\ FollowsChanged(c) /\ Fetched(c) = c.prev.fetched
  /\ c.prev.localRefs = <<[href |-> HrefU, etag |-> StrongTag(1)]>>
  /\ c.localRefs = <<>>
  /\ ~c.changed

\* the same for diffRefs on its own: applying the three lists to the local
\* references gives the remote references
C27_DiffApplied ==
  fnRes # <<>> =>
    LET d == fnRes[1]
    IN SetOf(applyDiff(fnArgs.localRefs, d.newItems \o d.updatedItems,
                       d.deletedItems, fnArgs.remoteRefs)) = SetOf(fnArgs.remoteRefs)

\* ---- C28
\* the change-tags the server has had up to now
TagsSoFar == {CtagText(n) : n \in 0..srvCtag}

\* caller 1's sync call receives the reference listing in this step
RefsArrive ==
  /\ call[1].op = "sync" /\ call[1].pc = "refs"
  /\ call'[1].pc = "done" /\ call'[1].outcome = "resolved"

\* C28: the change-tag is fetched before the references, so the newCtag a
\* sync returns is never newer than the server state its reference listing
\* was taken from; a caller that stores newCtag and applies the diff is
\* therefore told changed = TRUE by its next sync whenever the server's tag
\* has moved on, and when that next sync short-circuits the caller's
\* references are the server's: a change landing between the two requests
\* is not lost.
C28_ChangeNotLost ==
  /\ [](\A p \in Procs :
         (call[p].op = "sync" /\ Len(call[p].reqs) = 2) =>
           /\ call[p].reqs[1].props = <<"getctag">>
           /\ call[p].reqs[2].props = <<"getetag">>
           /\ call[p].reqs[1].status = 207
           /\ call[p].newCtag = call[p].reqs[1].resp)
  /\ [][/\ RefsArrive => call'[1].newCtag \in TagsSoFar
        /\ (SyncReturns /\ FollowsChanged(call'[1])) =>
             IF Fetched(call'[1]) # call'[1].ctag
             THEN call'[1].changed
             ELSE LocalIsRemote]_vars

\* another client wrote between the two requests of a sync; the listing held
\* that write, the returned tag did not, and the caller's next sync reported
\* changed = TRUE with nothing left to apply
C28_Witness ==
  LET c == call[1] IN
  /\ FollowsChanged(c)
  /\ c.prev.fetched = CtagText(2)
  /\ Fetched(c) = CtagText(3)
  /\ c.localRefs = <<[href |-> HrefU, etag |-> StrongTag(3)]>>
  /\ c.changed
  /\ c.newItems = <<>> /\ c.updatedItems = <<>> /\ c.deletedItems = <<>>

\* ---- C29
\* the hrefs in which, when the step ends, the server differs from caller 1's
\* references through another client's doing: an event not written by the
\* caller that the caller does not hold in that version, or a held event
\* that is gone
OthersChanges ==
  {h \in DOMAIN items' :
     /\ items'[h].kind = "VEVENT" /\ items'[h].body # 1
     /\ [href |-> h, etag |-> StrongTag(items'[h].ver)] \notin SetOf(call'[1].localRefs)}
  \cup {r.href : r \in {l \in SetOf(call'[1].localRefs) : l.href \notin DOMAIN items'}}

Reported == SetOf(call'[1].newItems \o call'[1].updatedItems \o call'[1].deletedItems)

\* C29: a caller that stores the newCtag returned by createEvent / updateEvent
\* and adds the written reference to its references is still told, by its
\* next syncChanges, of every change other clients made since its previous
\* sync.
C29_WriteTagSafe ==
  [][(fnArgs.start = "synced" /\ fnRes[1].wrote /\ SyncReturns)
       => OthersChanges \subseteq Reported]_vars

\* another client rewrote the caller's event, the caller then created an
\* event and stored that call's newCtag; its sync returned changed = FALSE
C29_MissedWrite ==
  /\ fnArgs.start = "synced" /\ fnRes[1].wrote
  /\ SyncDone(call[1]) /\ ~call[1].changed
  /\ call[1].ctag = CtagText(3)
  /\ hasHref(call[1].localRefs, HrefU) /\ mapGet(call[1].localRefs, HrefU) = StrongTag(1)
  /\ HrefU \in DOMAIN items /\ items[HrefU].ver = 2 /\ items[HrefU].body = 9

\* ============================================================ one session
\* A client is created, used for reads, writes and syncs, exported to a
\* snapshot and restored from it.  fnRes[1] is the client CalDAVClient.create
\* builds; fnRes[2], once something has happened after create, holds the
\* exported snapshot, the restored client and the read in progress.
MaxReads == 1         \* reads started in one session
MaxSessionCalls == 1  \* writes and syncs started in one session

isSet(s) == s \notin {Null, Undef, Empty}

ProdId == <<"-//ts-caldav.//CalDAV Client//EN">>

NoCache == [valid |-> FALSE, userPrincipal |-> Null, calendarHome |-> Null, prodId |-> Empty]
NoClient == [built |-> FALSE, userPrincipal |-> Null, calendarHome |-> Null,
             prodId |-> Empty, reqs |-> <<>>]
NoRead ==
  [by |-> "none", op |-> "none", pc |-> "idle", method |-> "", url |-> Empty,
   depth |-> "", props |-> <<>>, hrefs |-> <<>>, status |-> 0,
   outcome |-> "pending", error |-> "none", result |-> <<>>]
NoSession == [cache |-> NoCache, restored |-> NoClient, read |-> NoRead, nReads |-> 0]

Ses == IF Len(fnRes) >= 2 THEN fnRes[2] ELSE NoSession

\* create has resolved
Resolved == Len(fnRes) >= 1 /\ fnRes[1].pc = "done" /\ fnRes[1].outcome = "resolved"

Clients == {"client", "restored"}

\* the identity fields of the client a call is made on
ClientOf(who) ==
  IF who = "client"
  THEN [userPrincipal |-> fnRes[1].userPrincipal, calendarHome |-> fnRes[1].calendarHome]
  ELSE [userPrincipal |-> Ses.restored.userPrincipal,
        calendarHome |-> Ses.restored.calendarHome]

CanRead(who) ==
  /\ Resolved
  /\ who = "restored" => Ses.restored.built
  /\ Ses.read.pc \in {"idle", "done"}
  /\ Ses.nReads < MaxReads

\* the session after a read has started or ended
withRead(r) == <<fnRes[1], [Ses EXCEPT !.read = r]>>
startRead(r) == <<fnRes[1], [Ses EXCEPT !.read = r, !.nReads = @ + 1]>>

Sent(who, op, method, url, depth, props, hrefs) ==
  [NoRead EXCEPT !.by = who, !.op = op, !.pc = "sent", !.method = method,
                 !.url = url, !.depth = depth, !.props = props, !.hrefs = hrefs]

Returned(who, op, result) ==
  [NoRead EXCEPT !.by = who, !.op = op, !.pc = "done", !.outcome = "resolved",
                 !.result = result]

Thrown(r, status, error) ==
  [r EXCEPT !.pc = "done", !.status = status, !.outcome = "rejected", !.error = error]

Got(r, status, result) ==
  [r EXCEPT !.pc = "done", !.status = status, !.outcome = "resolved", !.result = result]

\* the statuses and bodies the server answers reads with
ReadStatuses == {200, 204, 207, 500}

ListingBody ==
  [response |-> XmlOne([href |-> EntryHref(1),
                        propstat |-> XmlOne([status |-> StatusOk,
                                             prop |-> [displayname |-> <<"Work">>,
                                                       getctag |-> <<"ctag">>,
                                                       comp |-> XmlOne("VEVENT")]])])]

ItemsBody ==
  [response |-> XmlOne(ItemEntry(1, [kind |-> "doc",
                                     comps |-> <<PlainEvent("e9"), PlainTodo("t9")>>]))]

EtagBodies == {Undef, StrongTag(1), WeakTag(1)}

\* validateStatus of getCalendars
listAccepts(status) == status >= 200 /\ status < 300

\* mutant of multigetAccepts: only 207 Multi-Status counts as success
multigetAccepts_Only207(status) == status = 207

\* validateStatus of getItemsByHref
multigetAccepts(status) == status >= 200 /\ status < 300

\* validateStatus of getETag
etagAccepts(status) == status >= 200 /\ status < 300

SessionOptions == {[fn |-> "create", basePath |-> <<"/", "dav", "/">>, isGoogle |-> FALSE]}

\* the server of this session names one principal and one calendar home
PrincipalPath == <<"/", "dav", "/", "principals", "/", "u", "/">>
HomePath == <<"/", "caldav", "/", "v2", "/", "u", "/">>
ServerOfSession ==
  \A i \in DOMAIN fnRes'[1].reqs :
    fnRes'[1].reqs[i].href \in {Undef, IF i = 1 THEN PrincipalPath ELSE HomePath}

InitSession ==
  /\ AtRest
  /\ fnArgs \in SessionOptions
  /\ fnRes = <<>>

\* client.exportCache()
exportCache ==
  /\ Resolved
  /\ ~Ses.cache.valid
  /\ fnRes' = <<fnRes[1],
                [Ses EXCEPT !.cache = [valid |-> TRUE,
                                       userPrincipal |-> fnRes[1].userPrincipal,
                                       calendarHome |-> fnRes[1].calendarHome,
                                       prodId |-> ProdId]]>>
  /\ UNCHANGED <<serverVars, clientVars, fnArgs>>

\* CalDAVClient.createFromCache(options, cache): the client takes its identity
\* from the snapshot and asks the server nothing
createFromCache ==
  /\ Resolved
  /\ Ses.cache.valid /\ ~Ses.restored.built
  /\ fnRes' = <<fnRes[1],
                [Ses EXCEPT !.restored = [built |-> TRUE,
                                          userPrincipal |-> Ses.cache.userPrincipal,
                                          calendarHome |-> Ses.cache.calendarHome,
                                          prodId |-> Ses.cache.prodId,
                                          reqs |-> <<>>]]>>
  /\ UNCHANGED <<serverVars, clientVars, fnArgs>>

ListingProps ==
  <<"resourcetype", "displayname", "getctag", "supported-calendar-component-set">>

\* mutant of getCalendars: the listing is asked of the principal
getCalendars_AtPrincipal(who) ==
  /\ CanRead(who)
  /\ fnRes' = startRead(Sent(who, "getCalendars", "PROPFIND",
                             ClientOf(who).userPrincipal, "1", ListingProps, <<>>))
  /\ UNCHANGED <<serverVars, clientVars, fnArgs>>

\* getCalendars, to the PROPFIND on the calendar home
getCalendars(who) ==
  /\ CanRead(who)
  /\ fnRes' = startRead(
       IF ~isSet(ClientOf(who).calendarHome)
       THEN Thrown([NoRead EXCEPT !.by = who, !.op = "getCalendars"], 0,
                   "Calendar home not found.")
       ELSE Sent(who, "getCalendars", "PROPFIND", ClientOf(who).calendarHome, "1",
                 ListingProps, <<>>))
  /\ UNCHANGED <<serverVars, clientVars, fnArgs>>

\* mutant of getCalendarsDone: the first collection listed becomes the home
getCalendarsDone_Rehomed ==
  /\ Ses.read.op = "getCalendars" /\ Ses.read.pc = "sent"
  /\ \E status \in ReadStatuses :
       fnRes' =
         IF listAccepts(status)
         THEN <<IF Ses.read.by = "client"
                THEN [fnRes[1] EXCEPT !.calendarHome = EntryHref(1)] ELSE fnRes[1],
                [Ses EXCEPT !.read = Got(Ses.read, status, parseCalendars(ListingBody))]>>
         ELSE withRead(Thrown(Ses.read, status, "AxiosError"))
  /\ UNCHANGED <<serverVars, clientVars, fnArgs>>

\* getCalendars: the answer
getCalendarsDone ==
  /\ Ses.read.op = "getCalendars" /\ Ses.read.pc = "sent"
  /\ \E status \in ReadStatuses :
       fnRes' = withRead(IF listAccepts(status)
                         THEN Got(Ses.read, status, parseCalendars(ListingBody))
                         ELSE Thrown(Ses.read, status, "AxiosError"))
  /\ UNCHANGED <<serverVars, clientVars, fnArgs>>

\* getEvents / getTodos -> getComponents, to the REPORT (default window)
getItems(who, op, component) ==
  /\ CanRead(who)
  /\ LET q == ComponentQuery(CalUrlOf("event"), component,
                             [start |-> NoDate, end |-> NoDate, all |-> "undefined"], 1000)
     IN fnRes' = startRead(Sent(who, op, q.method, q.url, q.depth,
                                <<"getetag", "calendar-data">>, <<>>))
  /\ UNCHANGED <<serverVars, clientVars, fnArgs>>

getEvents(who) == getItems(who, "getEvents", "VEVENT")

getTodos(who) == getItems(who, "getTodos", "VTODO")

\* getComponents: the answer
getItemsDone ==
  /\ Ses.read.op \in {"getEvents", "getTodos"} /\ Ses.read.pc = "sent"
  /\ \E status \in ReadStatuses :
       fnRes' = withRead(
         IF queryAccepts(status)
         THEN Got(Ses.read, status,
                  IF Ses.read.op = "getEvents" THEN parseEvents(ItemsBody, 0)
                  ELSE parseTodos(ItemsBody, 0))
         ELSE Thrown(Ses.read, status, "Failed to retrieve"))
  /\ UNCHANGED <<serverVars, clientVars, fnArgs>>

HrefLists == {<<>>, <<CalUrlOf("todo")>>, <<HrefU>>, <<CalUrlOf("todo"), HrefU>>}

\* getEventsByHref / getTodosByHref -> getItemsByHref, to the multiget REPORT
getItemsByHref(who, op, hrefs) ==
  /\ CanRead(who)
  /\ LET filteredHrefs == SelectSeq(hrefs, LAMBDA href : endsWith(href, ".ics"))
     IN fnRes' = startRead(
          IF Len(hrefs) = 0 \/ Len(filteredHrefs) = 0
          THEN Returned(who, op, <<>>)
          ELSE Sent(who, op, "REPORT", CalUrlOf("event"), "1",
                    <<"getetag", "calendar-data">>, filteredHrefs))
  /\ UNCHANGED <<serverVars, clientVars, fnArgs>>

getEventsByHref(who, hrefs) == getItemsByHref(who, "getEventsByHref", hrefs)

getTodosByHref(who, hrefs) == getItemsByHref(who, "getTodosByHref", hrefs)

\* getItemsByHref: the answer
getItemsByHrefDone ==
  /\ Ses.read.op \in {"getEventsByHref", "getTodosByHref"} /\ Ses.read.pc = "sent"
  /\ \E status \in ReadStatuses :
       fnRes' = withRead(
         IF multigetAccepts(status)
         THEN Got(Ses.read, status,
                  IF Ses.read.op = "getEventsByHref" THEN parseEvents(ItemsBody, 0)
                  ELSE parseTodos(ItemsBody, 0))
         ELSE Thrown(Ses.read, status, "AxiosError"))
  /\ UNCHANGED <<serverVars, clientVars, fnArgs>>

\* getETag(href), to the PROPFIND
getETag(who, href) ==
  /\ CanRead(who)
  /\ fnRes' = startRead(Sent(who, "getETag", "PROPFIND", href, "0", <<"getetag">>, <<>>))
  /\ UNCHANGED <<serverVars, clientVars, fnArgs>>

\* getETag: the answer; a weak prefix is removed from the tag
getETagDone ==
  /\ Ses.read.op = "getETag" /\ Ses.read.pc = "sent"
  /\ \E status \in ReadStatuses, etag \in EtagBodies :
       fnRes' = withRead(
         IF etagAccepts(status) /\ Truthy(etag)
         THEN Got(Ses.read, status, stripWeak(etag))
         ELSE Thrown(Ses.read, status, "Failed to retrieve ETag"))
  /\ UNCHANGED <<serverVars, clientVars, fnArgs>>

\* getCtag(calendarUrl) called by the application, to the PROPFIND
getCtag(who, calendarUrl) ==
  /\ CanRead(who)
  /\ LET q == GetCtagRequest(calendarUrl)
     IN fnRes' = startRead(Sent(who, "getCtag", q.method, q.url, "0", q.props, <<>>))
  /\ UNCHANGED <<serverVars, clientVars, fnArgs>>

\* getCtag: the answer
getCtagDone ==
  /\ Ses.read.op = "getCtag" /\ Ses.read.pc = "sent"
  /\ \E status \in ReadStatuses :
       fnRes' = withRead(IF ctagAccepts(status)
                         THEN Got(Ses.read, status, CtagText(srvCtag))
                         ELSE Thrown(Ses.read, status, "AxiosError"))
  /\ UNCHANGED <<serverVars, clientVars, fnArgs>>

\* a write or sync may start on the created client
Ready == Resolved /\ nCalls < MaxSessionCalls

NextSession ==
  \/ create
  \/ validateCredentials /\ ServerOfSession
  \/ fetchCalendarHome /\ ServerOfSession
  \/ exportCache
  \/ createFromCache
  \/ \E who \in Clients : getCalendars(who)
  \/ getCalendarsDone
  \/ \E who \in Clients : getEvents(who)
  \/ \E who \in Clients : getTodos(who)
  \/ getItemsDone
  \/ \E who \in Clients, hrefs \in HrefLists : getEventsByHref(who, hrefs)
  \/ \E who \in Clients, hrefs \in HrefLists : getTodosByHref(who, hrefs)
  \/ getItemsByHrefDone
  \/ \E who \in Clients : getETag(who, HrefU)
  \/ getETagDone
  \/ \E who \in Clients : getCtag(who, CalUrlOf("event"))
  \/ getCtagDone
  \/ Ready /\ \E t \in ItemTypes : createItem(1, t, CalUrlOf(t), Undef)
  \/ createItemPut(1)
  \/ createItemCtag(1)
  \/ Ready /\ \E t \in ItemTypes :
       updateItem(1, t, CalUrlOf(t), UidU, HrefU, StrongTag(1), 1)
  \/ updateItemPut(1)
  \/ updateItemCtag(1)
  \/ Ready /\ \E t \in ItemTypes : deleteItem(1, t, CalUrlOf(t), UidU, Undef)
  \/ deleteItemDone(1)
  \/ Ready /\ syncChanges(1, CalUrlOf("event"), CtagText(0), <<>>)
  \/ Ready /\ syncTodoChanges(1, CalUrlOf("todo"), CtagText(0), <<>>)
  \/ syncCtag(1)
  \/ syncRefs(1)

SpecSession == InitSession /\ [][NextSession]_vars

\* ---- C21
Success(status) == status \in 200..299

ListReads == {"getCalendars", "getEvents", "getTodos", "getEventsByHref", "getTodosByHref"}

\* C21: discovery, calendar-home resolution, directory listing, item query,
\* reference query and bulk fetch take every 2xx status (207 or another) as
\* success and every other status as failure: with a well-formed body the
\* operation goes on or resolves exactly when the status is 2xx.
C21_AnySuccessStatus ==
  /\ fnRes # <<>> =>
       LET c == fnRes[1] IN
       /\ c.reqs[1].status # 0 =>
            /\ (Success(c.reqs[1].status) /\ c.reqs[1].kind = "href") => Len(c.reqs) = 2
            /\ ~Success(c.reqs[1].status) => (c.outcome = "rejected" /\ Len(c.reqs) = 1)
       /\ (Len(c.reqs) = 2 /\ c.reqs[2].status # 0) =>
            /\ (Success(c.reqs[2].status) /\ c.reqs[2].kind = "href") =>
                 c.outcome = "resolved"
            /\ ~Success(c.reqs[2].status) => c.outcome = "rejected"
  /\ (Ses.read.pc = "done" /\ Ses.read.status # 0 /\ Ses.read.op \in ListReads) =>
       (Ses.read.outcome = "resolved" <=> Success(Ses.read.status))
  /\ (call[1].op = "sync" /\ Len(call[1].reqs) = 2 /\ call[1].reqs[2].status # 0) =>
       (call[1].outcome = "resolved" <=> Success(call[1].reqs[2].status))

\* a bulk fetch answered 200 instead of 207 returned the decoded event
C21_Witness ==
  /\ Ses.read.op = "getEventsByHref" /\ Ses.read.pc = "done"
  /\ Ses.read.status = 200
  /\ Ses.read.outcome = "resolved"
  /\ Len(Ses.read.result) = 1

C23_IdentityFrame ==
  [][/\ Resolved =>
          /\ fnRes'[1].userPrincipal = fnRes[1].userPrincipal
          /\ fnRes'[1].calendarHome = fnRes[1].calendarHome
     /\ Ses.restored.built =>
          /\ Ses'.restored.userPrincipal = Ses.restored.userPrincipal
          /\ Ses'.restored.calendarHome = Ses.restored.calendarHome]_vars

\* after create resolved, a listing succeeded and an update failed while the
\* identity is the one create stored
C23_Witness ==
  /\ Resolved
  /\ fnRes[1].userPrincipal = <<"/", "principals", "/", "u", "/">>
  /\ fnRes[1].calendarHome = HomePath
  /\ Ses.read.op = "getCalendars" /\ Ses.read.pc = "done"
  /\ Ses.read.outcome = "resolved"
  /\ call[1].op = "updateItem" /\ call[1].outcome = "rejected"

====
